---------------------------- MODULE Spec2Model ----------------------------
(***************************************************************************)
(* State-machine model of the scheduling engine of src/unnamed/part_000    *)
(* (class FixedUnifiedSchedulingEngine and function runScheduling), and,   *)
(* in the last section, of the engine of src/x10-browser.js.               *)
(*                                                                         *)
(* Time is counted in whole minutes of local time from midnight of day 0   *)
(* (a JavaScript Date with zero seconds and milliseconds, no DST change).  *)
(* A Date's getHours() is Hours(t), getMinutes() is Mins(t), getDate() is  *)
(* Day(t); setHours(h,0,0,0) is SetHours(t,h); setDate(getDate()+1) adds   *)
(* MinutesPerDay.                                                          *)
(***************************************************************************)
EXTENDS Integers, Sequences, FiniteSets, TLC

VARIABLES
    ordersData,        \* the array handed to runScheduling (records are shared with sortedOrders)
    inputOrders,       \* the caller's array as it was when runScheduling was called
    settingsNull,      \* TRUE when the caller passed null for globalSettings
    globalStart,       \* engine.globalStartDateTime (minutes)
    globalBreakdown,   \* globalSettings.breakdownMachines
    settingsWindow,    \* globalSettings.productionWindow
    originalOrderResults, \* runScheduling: the rows scheduleOrder returned, per order
    sortedOrders,      \* runScheduling: indices into ordersData, in processing order
    pc,                \* position inside runScheduling
    orderIndex,        \* forEach index into sortedOrders (1-based)
    batches,           \* scheduleOrder: batches of the order being scheduled
    batchIndex,        \* scheduleOrder: batches.forEach index (1-based)
    opIndex,           \* scheduleOrder: operations.forEach index (1-based)
    orderResults,      \* scheduleOrder: rows of the order being scheduled
    batchPrevFPD,      \* scheduleOrder: batchPreviousSequenceFirstPieceDone (NoTime = null)
    batchPrevRunEnd,   \* scheduleOrder: batchPreviousOpRunEnd (NoTime = null)
    machineSchedule,   \* engine.machineSchedule: machine -> intervals sorted by start
    operatorSchedule,  \* engine.operatorSchedule: operator -> intervals sorted by start
    allResults,        \* runScheduling: rows collected so far
    alerts,            \* runScheduling: alerts collected so far
    completedOrders,   \* indices of the orders whose scheduleOrder call returned
    reservationLog,    \* history: every ledger reservation, in the order it was made
    result,            \* the object runScheduling returned (NoResult before it returns)
    bq                 \* argument/result cell of a stand-alone calculateBatchSplitting call

vars == << ordersData, inputOrders, settingsNull, globalStart, globalBreakdown,
           settingsWindow, originalOrderResults,
           sortedOrders, pc,
           orderIndex, batches, batchIndex, opIndex, orderResults, batchPrevFPD,
           batchPrevRunEnd, machineSchedule, operatorSchedule, allResults, alerts,
           completedOrders, reservationLog, result, bq >>

(***************************************************************************)
(* Date arithmetic                                                         *)
(***************************************************************************)
MinutesPerDay == 1440
NoTime == -1

Max(a, b) == IF a >= b THEN a ELSE b
Min(a, b) == IF a <= b THEN a ELSE b

Hours(t) == (t % MinutesPerDay) \div 60
Mins(t) == t % 60
Day(t) == t \div MinutesPerDay
SetHours(t, h) == Day(t) * MinutesPerDay + h * 60
HM(d, h, m) == d * MinutesPerDay + h * 60 + m

(***************************************************************************)
(* Engine configuration (constructor)                                      *)
(***************************************************************************)
allMachines == << "VMC 1", "VMC 2", "VMC 3", "VMC 4", "VMC 5", "VMC 6", "VMC 7" >>
allPersons == << "A", "B", "C", "D" >>
UnknownMachine == "VMC 9"
MachineIds == { allMachines[i] : i \in 1..Len(allMachines) } \cup { UnknownMachine }
PersonIds == { allPersons[i] : i \in 1..Len(allPersons) }

operatorShifts ==
    [ A |-> [start |-> 6, end |-> 14, shift |-> "morning"],
      B |-> [start |-> 6, end |-> 14, shift |-> "morning"],
      C |-> [start |-> 14, end |-> 22, shift |-> "afternoon"],
      D |-> [start |-> 14, end |-> 22, shift |-> "afternoon"] ]

\* parseSetupWindow of the default "06:00-22:00"
setupWindow == [start |-> 6, end |-> 22]

SeqToSet(s) == { s[i] : i \in 1..Len(s) }
Includes(s, x) == \E i \in 1..Len(s) : s[i] = x
IndexOf(s, x) == CHOOSE i \in 1..Len(s) : s[i] = x /\ \A j \in 1..(i - 1) : s[j] # x

RECURSIVE SumSeq(_)
SumSeq(s) == IF s = << >> THEN 0 ELSE Head(s) + SumSeq(Tail(s))

(***************************************************************************)
(* Batch Planner: calculateBatchSplitting                                  *)
(***************************************************************************)
CeilDiv(a, b) == (a + b - 1) \div b

\* parseInt(customBatchSize) || 300; 0 stands for an unset, zero or non-numeric value
userBatchSize(customBatchSize) == IF customBatchSize = 0 THEN 300 ELSE customBatchSize

RECURSIVE customBatches(_, _, _)
customBatches(size, remainingQuantity, batchIndex0) ==
    IF remainingQuantity > 0
    THEN LET batchQuantity == Min(size, remainingQuantity)
         IN  << [quantity |-> batchQuantity, batchIndex |-> batchIndex0] >>
             \o customBatches(size, remainingQuantity - batchQuantity, batchIndex0 + 1)
    ELSE << >>

\* the larger half taken second
halfBatchesFloorFirst(totalQuantity) ==
    LET half1 == totalQuantity \div 2
    IN  << [quantity |-> half1, batchIndex |-> 0],
           [quantity |-> totalQuantity - half1, batchIndex |-> 1] >>

\* lines 139-151: two nearly equal halves
halfBatches(totalQuantity) ==
    LET half1 == CeilDiv(totalQuantity, 2)
    IN  << [quantity |-> half1, batchIndex |-> 0],
           [quantity |-> totalQuantity - half1, batchIndex |-> 1] >>

\* the remainder put into the last batch
balancedBatchesRemainderLast(totalQuantity, numBatches) ==
    LET baseSize == totalQuantity \div numBatches
        remainder == totalQuantity % numBatches
    IN  [ i \in 1..numBatches |->
            [quantity |-> baseSize + (IF i = numBatches THEN remainder ELSE 0),
             batchIndex |-> i - 1] ]

balancedBatches(totalQuantity, numBatches) ==
    LET baseSize == totalQuantity \div numBatches
        remainder == totalQuantity % numBatches
    IN  [ i \in 1..numBatches |->
            [quantity |-> baseSize + (IF i - 1 < remainder THEN 1 ELSE 0),
             batchIndex |-> i - 1] ]

\* two batches up to 1000 pieces unless the priority is high
autoSplitNumBatchesPreferTwo(totalQuantity, priority) ==
    LET isHighPriority == priority = "High" \/ priority = "Urgent"
    IN  IF totalQuantity <= 1000
        THEN IF isHighPriority THEN 3 ELSE 2
        ELSE IF isHighPriority THEN CeilDiv(totalQuantity, 334)
             ELSE CeilDiv(totalQuantity, 500)

autoSplitNumBatches(totalQuantity, priority) ==
    LET isHighPriority == priority = "High" \/ priority = "Urgent"
    IN  IF totalQuantity <= 1000
        THEN IF isHighPriority THEN 3
             ELSE IF (totalQuantity % 3) < (totalQuantity % 2) THEN 3 ELSE 2
        ELSE IF isHighPriority THEN CeilDiv(totalQuantity, 334)
             ELSE CeilDiv(totalQuantity, 500)

calculateBatchSplitting(totalQuantity, priority, batchMode, customBatchSize) ==
    CASE batchMode = "single-batch" ->
            << [quantity |-> totalQuantity, batchIndex |-> 0] >>
      [] batchMode = "custom-batch-size" ->
            customBatches(userBatchSize(customBatchSize), totalQuantity, 0)
      [] OTHER ->
            IF totalQuantity <= 250
            THEN << [quantity |-> totalQuantity, batchIndex |-> 0] >>
            ELSE IF totalQuantity <= 500
            THEN halfBatches(totalQuantity)
            ELSE balancedBatches(totalQuantity, autoSplitNumBatches(totalQuantity, priority))

(***************************************************************************)
(* Shift / window calendar                                                 *)
(***************************************************************************)
enforceSetupWindow(time) ==
    LET hour == Hours(time)
    IN  IF hour < setupWindow.start THEN SetHours(time, setupWindow.start)
        ELSE IF hour >= setupWindow.end
        THEN SetHours(time + MinutesPerDay, setupWindow.start)
        ELSE time

validateSetupWithinWindow(setupStart, setupEnd) ==
    LET setupEndHour == Hours(setupEnd)
    IN  IF setupEndHour > setupWindow.end
           \/ (setupEndHour = setupWindow.end /\ Mins(setupEnd) > 0)
        THEN SetHours(setupStart + MinutesPerDay, setupWindow.start)
             + (setupEnd - setupStart)
        ELSE setupEnd

isOperatorOnShift(operator, setupStart, setupEnd) ==
    LET shift == operatorShifts[operator]
        startHour == Hours(setupStart)
        endHour == Hours(setupEnd)
        sameDay == startHour >= shift.start /\ endHour <= shift.end
        crossDay == startHour >= shift.start /\ endHour > 24
                    /\ endHour - 24 <= shift.end
        wraps == startHour >= shift.start /\ endHour < startHour
    IN  sameDay \/ crossDay \/ wraps

getOperatorsOnShift(setupStart, setupEnd) ==
    SelectSeq(allPersons, LAMBDA operator : isOperatorOnShift(operator, setupStart, setupEnd))

\* the second definition of the class (lines 1253-1259) replaces the first one
getNextValidShiftStart(referenceTime) == SetHours(referenceTime + MinutesPerDay, 6)

isOperatorInCorrectShift(operator, setupTime, setupEndTime) ==
    LET hour == Hours(setupTime)
        endHour == Hours(setupEndTime)
    IN  IF Day(setupTime) # Day(setupEndTime) THEN FALSE
        ELSE IF hour >= 6 /\ endHour <= 14 THEN operator \in {"A", "B"}
        ELSE IF hour >= 14 /\ endHour <= 22 THEN operator \in {"C", "D"}
        ELSE FALSE

getOperatorsForNextShift(currentOperator) ==
    IF operatorShifts[currentOperator].shift = "morning" THEN << "C", "D" >>
    ELSE << "A", "B" >>

(***************************************************************************)
(* Resource ledger queries                                                 *)
(***************************************************************************)
\* an overlap test that only sees an existing interval lying strictly inside the new one
OverlapsContainedOnly(s1, e1, s2, e2) == s1 < s2 /\ e2 < e1

\* the overlap test of reserveOperator (line 2043)
Overlaps(s1, e1, s2, e2) == s1 < e2 /\ s2 < e1

hasOperatorConflict(operator, setupStart, setupEnd) ==
    \E k \in 1..Len(operatorSchedule[operator]) :
        LET existing == operatorSchedule[operator][k]
        IN  setupStart < existing.end /\ setupEnd > existing.start

isOperatorAvailable(operator, startTime, endTime) ==
    /\ ~ \E k \in 1..Len(operatorSchedule[operator]) :
            LET interval == operatorSchedule[operator][k]
            IN  startTime < interval.end /\ endTime > interval.start
    /\ isOperatorInCorrectShift(operator, startTime, endTime)

getTotalOperatorSetupMinutes(operator) ==
    LET intervals == operatorSchedule[operator]
    IN  SumSeq([ k \in 1..Len(intervals) |-> intervals[k].end - intervals[k].start ])

getOperatorSetupMinutesInShift(operator, referenceTime) ==
    LET intervals == operatorSchedule[operator]
        shiftStart == SetHours(referenceTime, operatorShifts[operator].start)
        shiftEnd == SetHours(referenceTime, operatorShifts[operator].end)
    IN  SumSeq([ k \in 1..Len(intervals) |->
                 IF intervals[k].start < shiftEnd /\ intervals[k].end > shiftStart
                 THEN Min(intervals[k].end, shiftEnd) - Max(intervals[k].start, shiftStart)
                 ELSE 0 ])

RECURSIVE LatestEnd(_)
LatestEnd(intervals) ==
    IF intervals = << >> THEN 0
    ELSE Max(Head(intervals).end, LatestEnd(Tail(intervals)))

getEarliestOperatorFreeTime(operator, setupStart) ==
    LET intervals == operatorSchedule[operator]
    IN  IF Len(intervals) = 0 THEN setupStart
        ELSE IF LatestEnd(intervals) > setupStart THEN LatestEnd(intervals)
        ELSE setupStart

\* Math.round(total + 0.5*current - 50 (afternoon) + 10*rotation); Math.round rounds halves up
calculateOperatorPriority(operator, totalSetupMinutes, currentShiftMinutes, shift) ==
    LET doubled == 2 * totalSetupMinutes + currentShiftMinutes
                   - (IF shift = "afternoon" THEN 100 ELSE 0)
                   + 20 * (IndexOf(allPersons, operator) - 1)
    IN  (doubled + 1) \div 2

\* the end of the earliest interval taken for the latest end
getEarliestFreeTimeOfFirstInterval(machine) ==
    LET intervals == machineSchedule[machine]
    IN  IF Len(intervals) = 0 THEN globalStart ELSE intervals[1].end

\* every machine taken to be free from the global start on
getEffectiveStartTimeForMachine(machine) == globalStart

getEarliestFreeTime(machine) ==
    LET intervals == machineSchedule[machine]
    IN  IF Len(intervals) = 0 THEN globalStart ELSE LatestEnd(intervals)

\* Array.prototype.sort is stable: the first element holding the least key stays first.
\* Entries are records with the numeric sort keys k1 (major) and k2 (minor).
KeyLess(a, b) == a.k1 < b.k1 \/ (a.k1 = b.k1 /\ a.k2 < b.k2)

RECURSIVE InsertStable(_, _)
InsertStable(sorted, x) ==
    IF sorted = << >> THEN << x >>
    ELSE IF KeyLess(x, Head(sorted)) THEN << x >> \o sorted
    ELSE << Head(sorted) >> \o InsertStable(Tail(sorted), x)

RECURSIVE StableSort(_)
StableSort(s) ==
    IF s = << >> THEN << >>
    ELSE InsertStable(StableSort(SubSeq(s, 1, Len(s) - 1)), s[Len(s)])

(***************************************************************************)
(* Operator Selector                                                       *)
(***************************************************************************)
NoOperator == "null"

operatorCandidate(operator, referenceTime) ==
    LET totalSetupMinutes == getTotalOperatorSetupMinutes(operator)
        currentShiftMinutes == getOperatorSetupMinutesInShift(operator, referenceTime)
    IN  [operator |-> operator,
         k1 |-> calculateOperatorPriority(operator, totalSetupMinutes, currentShiftMinutes,
                                          operatorShifts[operator].shift),
         k2 |-> 0]

selectOptimalPerson(setupStart, setupEnd) ==
    LET operatorsOnShift == getOperatorsOnShift(setupStart, setupEnd)
        free == SelectSeq(operatorsOnShift,
                          LAMBDA o : ~ hasOperatorConflict(o, setupStart, setupEnd))
        operatorCandidates ==
            StableSort([ i \in 1..Len(free) |-> operatorCandidate(free[i], setupStart) ])
        adjustedStart(o) == Max(setupStart, getEarliestOperatorFreeTime(o, setupStart))
        delayedOps == SelectSeq(operatorsOnShift,
                          LAMBDA o : isOperatorOnShift(o, adjustedStart(o),
                                         adjustedStart(o) + (setupEnd - setupStart)))
        delayedCandidates ==
            StableSort([ i \in 1..Len(delayedOps) |->
                [ operatorCandidate(delayedOps[i], setupStart)
                    EXCEPT !.k2 = adjustedStart(delayedOps[i]) - setupStart ] ])
    IN  IF Len(operatorsOnShift) = 0
        THEN [operator |-> NoOperator, delayedStart |-> getNextValidShiftStart(setupStart)]
        ELSE IF Len(operatorCandidates) > 0
        THEN [operator |-> operatorCandidates[1].operator, delayedStart |-> NoTime]
        ELSE IF Len(delayedCandidates) > 0
        THEN [operator |-> delayedCandidates[1].operator, delayedStart |-> NoTime]
        ELSE [operator |-> operatorsOnShift[1], delayedStart |-> NoTime]

findNextValidSetupSlot(requestedStart, setupDurationMin) ==
    LET candidateStart ==
            IF Hours(requestedStart) < 6 THEN SetHours(requestedStart, 6)
            ELSE IF Hours(requestedStart) >= 22
            THEN SetHours(requestedStart + MinutesPerDay, 6)
            ELSE requestedStart
        candidateEnd == candidateStart + setupDurationMin
    IN  IF Hours(candidateEnd) > 22 THEN SetHours(candidateStart + MinutesPerDay, 6)
        ELSE candidateStart

selectOperatorForTimeSlot(setupStart, setupEnd) ==
    LET startHour == Hours(setupStart)
        shiftOperators == IF startHour >= 6 /\ startHour < 14 THEN << "A", "B" >>
                          ELSE IF startHour >= 14 /\ startHour < 22 THEN << "C", "D" >>
                          ELSE << >>
        available == SelectSeq(shiftOperators,
                               LAMBDA o : isOperatorAvailable(o, setupStart, setupEnd))
    IN  IF Len(available) > 0 THEN available[1]
        ELSE IF startHour < 14 THEN "A" ELSE "C"

handleSetupSpillover(operator, setupStart, setupEnd, setupDuration) ==
    LET setupStartHour == Hours(setupStart)
        setupEndHour == Hours(setupEnd)
        isSetupWindowViolation ==
            setupStartHour < 6 \/ setupStartHour >= 22
            \/ setupEndHour < 6 \/ setupEndHour > 22
        isOperatorShiftViolation == ~ isOperatorInCorrectShift(operator, setupStart, setupEnd)
        nextValidStart ==
            IF setupStartHour >= 14 /\ setupStartHour < 22
            THEN IF setupEndHour > 22 THEN SetHours(setupStart + MinutesPerDay, 6)
                 ELSE setupStart
            ELSE findNextValidSetupSlot(setupStart, setupDuration)
        nextValidEnd == nextValidStart + setupDuration
        shiftEnd == SetHours(setupStart, operatorShifts[operator].end)
        workDoneInShift == shiftEnd - setupStart
        remainingWork == setupDuration - workDoneInShift
    IN  IF isSetupWindowViolation \/ isOperatorShiftViolation
        THEN [operator |-> selectOperatorForTimeSlot(nextValidStart, nextValidEnd),
              actualSetupStart |-> nextValidStart,
              actualSetupEnd |-> nextValidEnd]
        ELSE IF setupEnd > shiftEnd
        THEN [operator |-> getOperatorsForNextShift(operator)[1],
              actualSetupStart |-> shiftEnd,
              actualSetupEnd |-> shiftEnd + remainingWork]
        ELSE [operator |-> operator,
              actualSetupStart |-> setupStart,
              actualSetupEnd |-> setupEnd]

\* scheduleOperation lines 527-619: the conflict check made before the machine is chosen
resolveSelectedOperator(actualOperator, actualSetupStart, actualSetupEnd, setupDuration) ==
    LET operatorsOnShift == getOperatorsOnShift(actualSetupStart, actualSetupEnd)
        operatorsWithLoad ==
            StableSort([ i \in 1..Len(operatorsOnShift) |->
                [operator |-> operatorsOnShift[i],
                 k1 |-> getOperatorSetupMinutesInShift(operatorsOnShift[i], actualSetupStart),
                 k2 |-> getTotalOperatorSetupMinutes(operatorsOnShift[i])] ])
        alternatives ==
            SelectSeq(operatorsWithLoad,
                      LAMBDA c : c.operator # actualOperator
                                 /\ ~ hasOperatorConflict(c.operator, actualSetupStart,
                                                          actualSetupEnd))
        delayFree(d) ==
            SelectSeq(getOperatorsOnShift(actualSetupStart + d, actualSetupEnd + d),
                      LAMBDA o : ~ hasOperatorConflict(o, actualSetupStart + d,
                                                       actualSetupEnd + d))
        microDelays == { d \in 1..15 : Len(delayFree(d)) > 0 }
        firstDelay == CHOOSE d \in microDelays : \A d2 \in microDelays : d <= d2
        fallback ==
            StableSort([ i \in 1..Len(allPersons) |->
                LET earliestAvailable ==
                        getEarliestOperatorFreeTime(allPersons[i], actualSetupStart)
                IN  [operator |-> allPersons[i],
                     earliestAvailable |-> earliestAvailable,
                     k1 |-> calculateOperatorPriority(allPersons[i],
                                getTotalOperatorSetupMinutes(allPersons[i]),
                                getOperatorSetupMinutesInShift(allPersons[i], earliestAvailable),
                                operatorShifts[allPersons[i]].shift),
                     k2 |-> 0] ])
    IN  IF ~ hasOperatorConflict(actualOperator, actualSetupStart, actualSetupEnd)
        THEN [operator |-> actualOperator, actualSetupStart |-> actualSetupStart,
              actualSetupEnd |-> actualSetupEnd]
        ELSE IF Len(alternatives) > 0
        THEN [operator |-> alternatives[1].operator, actualSetupStart |-> actualSetupStart,
              actualSetupEnd |-> actualSetupEnd]
        ELSE IF microDelays # {}
        THEN [operator |-> delayFree(firstDelay)[1],
              actualSetupStart |-> actualSetupStart + firstDelay,
              actualSetupEnd |-> actualSetupEnd + firstDelay]
        ELSE [operator |-> fallback[1].operator,
              actualSetupStart |-> fallback[1].earliestAvailable,
              actualSetupEnd |-> fallback[1].earliestAvailable + setupDuration]

findAlternativeOperator(setupStart, setupEnd) ==
    LET operatorsOnShift == getOperatorsOnShift(setupStart, setupEnd)
        free == SelectSeq(operatorsOnShift,
                          LAMBDA o : ~ hasOperatorConflict(o, setupStart, setupEnd))
        operatorCandidates ==
            StableSort([ i \in 1..Len(free) |-> operatorCandidate(free[i], setupStart) ])
        delayFree(d) ==
            SelectSeq(getOperatorsOnShift(setupStart + d, setupEnd + d),
                      LAMBDA o : ~ hasOperatorConflict(o, setupStart + d, setupEnd + d))
        delays == { d \in {5, 10, 15, 20, 25, 30} : Len(delayFree(d)) > 0 }
        firstDelay == CHOOSE d \in delays : \A d2 \in delays : d <= d2
    IN  IF Len(operatorCandidates) > 0 THEN operatorCandidates[1].operator
        ELSE IF delays # {} THEN delayFree(firstDelay)[1]
        ELSE NoOperator

\* reserveOperator: the interval that ends up stored, and for whom
RECURSIVE reserveOperatorTarget(_, _, _)
reserveOperatorTarget(operator, setupStart, setupEnd) ==
    IF \E k \in 1..Len(operatorSchedule[operator]) :
          Overlaps(setupStart, setupEnd, operatorSchedule[operator][k].start,
                   operatorSchedule[operator][k].end)
    THEN LET alternativeOperator == findAlternativeOperator(setupStart, setupEnd)
         IN  IF alternativeOperator # NoOperator /\ alternativeOperator # operator
             THEN reserveOperatorTarget(alternativeOperator, setupStart, setupEnd)
             ELSE reserveOperatorTarget(operator, setupStart + 15, setupEnd + 15)
    ELSE [operator |-> operator, start |-> setupStart, end |-> setupEnd]

\* intervals.push(x) followed by the stable intervals.sort((a, b) => a.start - b.start)
RECURSIVE insertByStart(_, _)
insertByStart(intervals, x) ==
    IF intervals = << >> THEN << x >>
    ELSE IF x.start < Head(intervals).start THEN << x >> \o intervals
    ELSE << Head(intervals) >> \o insertByStart(Tail(intervals), x)

\* a reserveOperator whose conflict branch goes on to the push after the nested call
reserveOperatorWithoutReturn(schedule, operator, setupStart, setupEnd) ==
    LET target == reserveOperatorTarget(operator, setupStart, setupEnd)
        stored == [schedule EXCEPT ![target.operator] =
                      insertByStart(@, [start |-> target.start, end |-> target.end])]
    IN  IF target = [operator |-> operator, start |-> setupStart, end |-> setupEnd]
        THEN stored
        ELSE [stored EXCEPT ![operator] =
                 insertByStart(@, [start |-> setupStart, end |-> setupEnd])]

reserveOperator(schedule, operator, setupStart, setupEnd) ==
    LET target == reserveOperatorTarget(operator, setupStart, setupEnd)
    IN  [schedule EXCEPT ![target.operator] =
            insertByStart(@, [start |-> target.start, end |-> target.end])]

reserveMachine(schedule, machine, startTime, endTime) ==
    [schedule EXCEPT ![machine] = insertByStart(@, [start |-> startTime, end |-> endTime])]

\* validateMachineSchedule: TRUE when it throws 'scheduling integrity violated'
machineScheduleViolated(intervals) ==
    \E i \in 1..Len(intervals), j \in 1..Len(intervals) :
        /\ i < j
        /\ intervals[i].start < intervals[j].end
        /\ intervals[j].start < intervals[i].end

(***************************************************************************)
(* Machine Selector                                                        *)
(***************************************************************************)
NoMachine == "undefined"

machineCandidate(machine, operation, orderData, setupStart) ==
    LET intervals == machineSchedule[machine]
        actualSetupStart == Max(setupStart, getEarliestFreeTime(machine))
        actualSetupEnd == actualSetupStart + operation.SetupTime_Min
        actualRunEnd == actualSetupEnd + orderData.quantity * operation.CycleTime_Min
        delayMinutes == actualSetupStart - setupStart
    IN  [machine |-> machine,
         actualSetupStart |-> actualSetupStart,
         meetsDueDate |-> actualRunEnd <= orderData.dueDate,
         delayMinutes |-> delayMinutes,
         canStartImmediately |-> delayMinutes <= 5,
         isUnusedMachine |-> Len(intervals) = 0,
         utilizationScore |-> Len(intervals),
         \* totalWorkloadHours, kept in minutes
         loadBalanceScore |->
            SumSeq([ k \in 1..Len(intervals) |-> intervals[k].end - intervals[k].start ])]

lessDelay(current, best) == current.delayMinutes < best.delayMinutes

lessUtilizedThenDelay(current, best) ==
    IF current.utilizationScore # best.utilizationScore
    THEN current.utilizationScore < best.utilizationScore
    ELSE current.delayMinutes < best.delayMinutes

lessUtilizedThenStart(current, best) ==
    IF current.utilizationScore # best.utilizationScore
    THEN current.utilizationScore < best.utilizationScore
    ELSE current.actualSetupStart < best.actualSetupStart

\* Math.abs(difference in hours) > 0.1 is a difference of more than 6 minutes
lessLoaded(current, best) ==
    IF current.loadBalanceScore - best.loadBalanceScore > 6
       \/ best.loadBalanceScore - current.loadBalanceScore > 6
    THEN current.loadBalanceScore < best.loadBalanceScore
    ELSE lessUtilizedThenStart(current, best)

\* the comparison made by the reduce callback of one selection priority
Better(rule, current, best) ==
    CASE rule = "lessDelay" -> lessDelay(current, best)
      [] rule = "lessUtilizedThenDelay" -> lessUtilizedThenDelay(current, best)
      [] rule = "lessUtilizedThenStart" -> lessUtilizedThenStart(current, best)
      [] OTHER -> lessLoaded(current, best)

\* array.reduce((best, current) => Better(current, best) ? current : best)
Reduce(s, rule) ==
    LET f[i \in 1..Len(s)] ==
            IF i = 1 THEN s[1]
            ELSE IF Better(rule, s[i], f[i - 1]) THEN s[i] ELSE f[i - 1]
    IN  f[Len(s)]

\* a selector without the utilization priorities: the first available machine
selectFirstAvailableMachine(operation, orderData, setupStart) ==
    LET eligibleMachines == operation.EligibleMachines
        breakdownMachines == IF orderData.breakdownMachine # ""
                             THEN << orderData.breakdownMachine >>
                             ELSE globalBreakdown
        availableMachines == SelectSeq(eligibleMachines,
                                       LAMBDA m : ~ Includes(breakdownMachines, m))
    IN  IF Len(availableMachines) = 0
        THEN IF Len(eligibleMachines) = 0 THEN NoMachine ELSE eligibleMachines[1]
        ELSE availableMachines[1]

selectOptimalMachine(operation, orderData, setupStart) ==
    LET eligibleMachines == operation.EligibleMachines
        breakdownMachines == IF orderData.breakdownMachine # ""
                             THEN << orderData.breakdownMachine >>
                             ELSE globalBreakdown
        availableMachines == SelectSeq(eligibleMachines,
                                       LAMBDA m : ~ Includes(breakdownMachines, m))
        candidates == [ i \in 1..Len(availableMachines) |->
                          machineCandidate(availableMachines[i], operation, orderData,
                                           setupStart) ]
        unusedImmediate == SelectSeq(candidates,
                               LAMBDA c : c.isUnusedMachine /\ c.canStartImmediately)
        unusedSoon == SelectSeq(candidates,
                               LAMBDA c : c.isUnusedMachine /\ c.delayMinutes <= 30)
        unused == SelectSeq(candidates, LAMBDA c : c.isUnusedMachine)
        immediateOnTime == SelectSeq(candidates,
                               LAMBDA c : c.canStartImmediately /\ c.meetsDueDate)
        immediate == SelectSeq(candidates, LAMBDA c : c.canStartImmediately)
        onTime == SelectSeq(candidates, LAMBDA c : c.meetsDueDate)
    IN  IF Len(availableMachines) = 0
        THEN IF Len(eligibleMachines) = 0 THEN NoMachine ELSE eligibleMachines[1]
        ELSE IF Len(unusedImmediate) > 0 THEN Reduce(unusedImmediate, "lessDelay").machine
        ELSE IF Len(unusedSoon) > 0 THEN Reduce(unusedSoon, "lessDelay").machine
        ELSE IF Len(unused) > 0 THEN Reduce(unused, "lessDelay").machine
        ELSE IF Len(immediateOnTime) > 0
        THEN Reduce(immediateOnTime, "lessUtilizedThenDelay").machine
        ELSE IF Len(immediate) > 0 THEN Reduce(immediate, "lessUtilizedThenDelay").machine
        ELSE IF Len(onTime) > 0 THEN Reduce(onTime, "lessUtilizedThenStart").machine
        ELSE Reduce(candidates, "lessLoaded").machine

(***************************************************************************)
(* Timing Calculator                                                       *)
(***************************************************************************)
calculatePreliminaryTiming(operation, earliestStartTime) ==
    LET setupStartTime == enforceSetupWindow(earliestStartTime)
        setupEndTime == validateSetupWithinWindow(setupStartTime,
                            setupStartTime + operation.SetupTime_Min)
    IN  [setupStart |-> setupStartTime, setupEnd |-> setupEndTime]

\* lines 1585-1619: the start of the setup against the previous first piece
pieceFlowSetupStart(earliestStartTime, firstPieceReadyTime, setupDuration) ==
    IF firstPieceReadyTime = NoTime THEN earliestStartTime
    ELSE IF firstPieceReadyTime - earliestStartTime > 0
    THEN IF earliestStartTime + setupDuration <= firstPieceReadyTime
         THEN earliestStartTime
         ELSE Max(earliestStartTime, firstPieceReadyTime)
    ELSE earliestStartTime

\* lines 1646-1677; previousOp is the array of the previous operation's piece completions
pieceCompletions(setupEndTime, batchQty, cycleTime, previousOp) ==
    LET f[i \in 1..batchQty] ==
            LET currentMachineTime == IF i = 1 THEN setupEndTime ELSE f[i - 1]
                pieceStartTime == IF i <= Len(previousOp)
                                  THEN Max(previousOp[i], currentMachineTime)
                                  ELSE currentMachineTime
            IN  pieceStartTime + cycleTime
    IN  f

\* the piece times left as the piece loop computed them
enforceRunEndSkipped(pieces, batchQty, cycleTime, previousOpRunEnd) == pieces

\* only the last piece moved behind the previous run end
enforceRunEndLastPieceOnly(pieces, batchQty, cycleTime, previousOpRunEnd) ==
    IF previousOpRunEnd # NoTime /\ pieces[batchQty] < previousOpRunEnd
    THEN [pieces EXCEPT ![batchQty] = previousOpRunEnd + cycleTime]
    ELSE pieces

\* lines 1679-1702: RunEnd(Op n) >= RunEnd(Op n-1)
enforceRunEnd(pieces, batchQty, cycleTime, previousOpRunEnd) ==
    IF previousOpRunEnd # NoTime /\ pieces[batchQty] < previousOpRunEnd
    THEN LET timeAdjustment == previousOpRunEnd + cycleTime - pieces[batchQty]
         IN  [ i \in 1..batchQty |-> pieces[i] + timeAdjustment ]
    ELSE pieces

calculateOperationTimingPieces(setupStartTime, setupEndTime, batchQty, pieces) ==
    [setupStartTime |-> setupStartTime,
     setupEndTime |-> setupEndTime,
     runStartTime |-> setupEndTime,
     runEndTime |-> pieces[batchQty],
     pieceCompletionTimes |-> pieces,
     firstPieceDone |-> pieces[1]]

calculateOperationTimingSetup(operation, batchQty, previousOpPieceCompletionTimes, previousOpRunEnd, setupStartTime, setupEndTime) ==
    calculateOperationTimingPieces(setupStartTime, setupEndTime, batchQty,
        enforceRunEnd(
            pieceCompletions(setupEndTime, batchQty, operation.CycleTime_Min,
                             previousOpPieceCompletionTimes),
            batchQty, operation.CycleTime_Min, previousOpRunEnd))

calculateOperationTimingStart(operation, batchQty, previousOpPieceCompletionTimes, previousOpRunEnd, setupStartTime) ==
    calculateOperationTimingSetup(operation, batchQty, previousOpPieceCompletionTimes,
        previousOpRunEnd, setupStartTime,
        validateSetupWithinWindow(setupStartTime,
                                  setupStartTime + operation.SetupTime_Min))

calculateOperationTiming(operation, batchQty, machine, earliestStartTime, previousOpPieceCompletionTimes, previousOpRunEnd) ==
    calculateOperationTimingStart(operation, batchQty, previousOpPieceCompletionTimes,
        previousOpRunEnd,
        enforceSetupWindow(
            Max(pieceFlowSetupStart(earliestStartTime,
                    IF Len(previousOpPieceCompletionTimes) > 0
                    THEN previousOpPieceCompletionTimes[1] ELSE NoTime,
                    operation.SetupTime_Min),
                getEarliestFreeTime(machine))))

\* constructor line 55; no method of the class assigns the field again
productionWindow == [start |-> 0, end |-> 24, type |-> "24x7"]

\* new Date(t).setHours(h, 0, 0, 0)
setHours(t, h) == (t \div MinutesPerDay) * MinutesPerDay + h * 60

applyProductionWindowConstraints(runStart, runEnd, runDuration) ==
    LET windowEnd == setHours(runStart, productionWindow.end)
        workDoneInWindow == windowEnd - runStart
        remainingWork == runDuration - workDoneInWindow
        nextWindowStart == setHours(windowEnd + MinutesPerDay, productionWindow.start)
    IN  IF productionWindow.type = "24x7"
        THEN [actualRunStart |-> runStart, actualRunEnd |-> runEnd, paused |-> FALSE]
        ELSE IF runEnd > windowEnd
        THEN [actualRunStart |-> runStart, actualRunEnd |-> nextWindowStart + remainingWork,
              paused |-> TRUE]
        ELSE [actualRunStart |-> runStart, actualRunEnd |-> runEnd, paused |-> FALSE]

(***************************************************************************)
(* Order Scheduler: scheduleOperation                                      *)
(***************************************************************************)
\* lines 658-693: both reservations and the returned row
scheduleOperationReserve(operation, batchQty, selectedAt, actualOperator, selectedMachine, finalTiming, productionConstraints, machineAfter) ==
    IF machineScheduleViolated(machineAfter[selectedMachine])
    THEN [threw |-> TRUE, selectedAt |-> selectedAt, machineSchedule |-> machineAfter]
    ELSE [threw |-> FALSE,
          selectedAt |-> selectedAt,
          machineSchedule |-> machineAfter,
          operatorSchedule |-> reserveOperator(operatorSchedule, actualOperator,
                                  finalTiming.setupStartTime, finalTiming.setupEndTime),
          operatorTarget |-> reserveOperatorTarget(actualOperator,
                                  finalTiming.setupStartTime, finalTiming.setupEndTime),
          row |-> [OperationSeq |-> operation.OperationSeq,
                   Machine |-> selectedMachine,
                   Person |-> actualOperator,
                   SetupStart |-> finalTiming.setupStartTime,
                   SetupEnd |-> finalTiming.setupEndTime,
                   RunStart |-> productionConstraints.actualRunStart,
                   RunEnd |-> productionConstraints.actualRunEnd,
                   pieceCompletionTimes |-> finalTiming.pieceCompletionTimes,
                   firstPieceDone |-> finalTiming.firstPieceDone,
                   SetupTime_Min |-> operation.SetupTime_Min,
                   CycleTime_Min |-> operation.CycleTime_Min,
                   Batch_Qty |-> batchQty]]

\* lines 646-659: production window, then the machine reservation
scheduleOperationWindow(operation, batchQty, selectedAt, actualOperator, selectedMachine, finalTiming, productionConstraints) ==
    scheduleOperationReserve(operation, batchQty, selectedAt, actualOperator,
        selectedMachine, finalTiming, productionConstraints,
        reserveMachine(machineSchedule, selectedMachine, finalTiming.setupStartTime,
                       productionConstraints.actualRunEnd))

\* lines 634-648: final timing on the selected machine
scheduleOperationTiming(operation, batchQty, selectedAt, actualOperator, selectedMachine, finalTiming) ==
    scheduleOperationWindow(operation, batchQty, selectedAt, actualOperator,
        selectedMachine, finalTiming,
        applyProductionWindowConstraints(finalTiming.runStartTime, finalTiming.runEndTime,
                                         operation.CycleTime_Min * batchQty))

\* lines 629-644: eligibility check of the selected machine
scheduleOperationMachine(operation, batchQty, previousSequenceFirstPieceDone, previousOpRunEnd, chosen, selectedMachine) ==
    IF ~ Includes(operation.EligibleMachines, selectedMachine)
    THEN [threw |-> TRUE, selectedAt |-> chosen.actualSetupStart]
    ELSE scheduleOperationTiming(operation, batchQty, chosen.actualSetupStart,
             chosen.operator, selectedMachine,
             calculateOperationTiming(operation, batchQty, selectedMachine,
                 chosen.actualSetupStart,
                 IF previousSequenceFirstPieceDone # NoTime
                 THEN << previousSequenceFirstPieceDone >> ELSE << >>,
                 previousOpRunEnd))

\* lines 621-627: machine selection at the operator's setup start
scheduleOperationChosen(operation, orderData, batchQty, previousSequenceFirstPieceDone, previousOpRunEnd, chosen) ==
    scheduleOperationMachine(operation, batchQty, previousSequenceFirstPieceDone,
        previousOpRunEnd, chosen,
        selectOptimalMachine(operation, orderData, chosen.actualSetupStart))

\* lines 512-619: spillover handling, then the conflict check of the operator
scheduleOperationSpillover(operation, orderData, batchQty, previousSequenceFirstPieceDone, previousOpRunEnd, spilloverResult) ==
    scheduleOperationChosen(operation, orderData, batchQty,
        previousSequenceFirstPieceDone, previousOpRunEnd,
        resolveSelectedOperator(spilloverResult.operator, spilloverResult.actualSetupStart,
                                spilloverResult.actualSetupEnd, operation.SetupTime_Min))

\* lines 497-514: a delayed start replaces the preliminary setup interval
scheduleOperationPerson(operation, orderData, batchQty, previousSequenceFirstPieceDone, previousOpRunEnd, preliminaryTiming, operatorResult) ==
    LET delayed == operatorResult.delayedStart # NoTime
    IN  scheduleOperationSpillover(operation, orderData, batchQty,
            previousSequenceFirstPieceDone, previousOpRunEnd,
            handleSetupSpillover(
                IF delayed /\ operatorResult.operator = NoOperator THEN "A"
                ELSE operatorResult.operator,
                IF delayed THEN operatorResult.delayedStart
                ELSE preliminaryTiming.setupStart,
                IF delayed THEN operatorResult.delayedStart + operation.SetupTime_Min
                ELSE preliminaryTiming.setupEnd,
                operation.SetupTime_Min))

\* lines 478-495: preliminary timing, operator selection
scheduleOperationPreliminary(operation, orderData, batchQty, previousSequenceFirstPieceDone, previousOpRunEnd, preliminaryTiming) ==
    scheduleOperationPerson(operation, orderData, batchQty,
        previousSequenceFirstPieceDone, previousOpRunEnd, preliminaryTiming,
        selectOptimalPerson(preliminaryTiming.setupStart, preliminaryTiming.setupEnd))

\* lines 452-485: earliest start of the operation
scheduleOperation(operation, orderData, batchQty, previousSequenceFirstPieceDone, previousOpRunEnd) ==
    scheduleOperationPreliminary(operation, orderData, batchQty,
        previousSequenceFirstPieceDone, previousOpRunEnd,
        calculatePreliminaryTiming(operation,
            IF previousSequenceFirstPieceDone # NoTime
            THEN Max(globalStart, previousSequenceFirstPieceDone)
            ELSE globalStart))

(***************************************************************************)
(* Scheduling Run: runScheduling                                           *)
(***************************************************************************)
NoResult == [returned |-> FALSE]

priorityWeight == [Urgent |-> 4, High |-> 3, Normal |-> 2, Low |-> 1]

\* the comparator of lines 2579-2596, as a pair of ascending keys
orderSortKeys(order, index) ==
    [index |-> index, k1 |-> order.dueDate, k2 |-> 0 - priorityWeight[order.priority]]

\* the two sort keys taken in the other order: priority first, due date second
sortOrdersByPriorityFirst(orders) ==
    LET sorted == StableSort([ i \in 1..Len(orders) |->
                     [index |-> i, k1 |-> 0 - priorityWeight[orders[i].priority],
                      k2 |-> orders[i].dueDate] ])
    IN  [ i \in 1..Len(orders) |-> sorted[i].index ]

sortOrders(orders) ==
    LET sorted == StableSort([ i \in 1..Len(orders) |-> orderSortKeys(orders[i], i) ])
    IN  [ i \in 1..Len(orders) |-> sorted[i].index ]

\* the operations of the order handed on in the order they were given
sortOperationsAsGiven(operations) == operations

\* scheduleOrder line 354: operations.sort((a, b) => a.OperationSeq - b.OperationSeq)
sortOperations(operations) ==
    LET sorted == StableSort([ i \in 1..Len(operations) |->
                     [index |-> i, k1 |-> operations[i].OperationSeq, k2 |-> 0] ])
    IN  [ i \in 1..Len(operations) |-> operations[sorted[i].index] ]

\* Math.ceil((due - today) / one day) <= 2, with today taken as the global start
isUrgentOrder(order) == CeilDiv(order.dueDate - globalStart, MinutesPerDay) <= 2

\* Math.ceil((completion - due) / one hour)
lateHours(completion, due) == CeilDiv(completion - due, 60)

formatDateTime(t) == [day |-> Day(t), hours |-> Hours(t), minutes |-> Mins(t)]
parseFormatted(f) == HM(f.day, f.hours, f.minutes)

hasCross(alert) == alert.kind \in {"failed", "validation", "fatal"}

CurrentOrder == ordersData[sortedOrders[orderIndex]]

\* a failure alert that does not name the order
failedAlertWithoutPart(order) == [kind |-> "failed", part |-> 0, hours |-> 0]

\* runScheduling line 2660
failedAlert(order) == [kind |-> "failed", part |-> order.partNumber, hours |-> 0]

\* runScheduling lines 2735-2742
fatalResult ==
    [returned |-> TRUE, threw |-> FALSE, rows |-> << >>,
     alerts |-> << [kind |-> "fatal", part |-> 0, hours |-> 0] >>,
     summary |-> [totalOrders |-> 0, totalOperations |-> 0, completedSuccessfully |-> 0]]

outputRow(order, opResult) ==
    [PartNumber |-> order.partNumber,
     Order_Quantity |-> order.quantity,
     Priority |-> order.priority,
     Batch_ID |-> opResult.Batch_ID,
     Batch_Qty |-> opResult.Batch_Qty,
     OperationSeq |-> opResult.OperationSeq,
     Machine |-> opResult.Machine,
     Person |-> opResult.Person,
     SetupStart |-> formatDateTime(opResult.SetupStart),
     SetupEnd |-> formatDateTime(opResult.SetupEnd),
     RunStart |-> formatDateTime(opResult.RunStart),
     RunEnd |-> formatDateTime(opResult.RunEnd),
     DueDate |-> order.dueDate,
     SetupTime_Min |-> opResult.SetupTime_Min,
     CycleTime_Min |-> opResult.CycleTime_Min]

\* setGlobalSettings(null) raises a TypeError that the outer catch turns into the fatal result
RunFatalSettings ==
    /\ pc = "start"
    /\ settingsNull
    /\ result' = fatalResult
    /\ pc' = "done"
    /\ UNCHANGED << ordersData, inputOrders, settingsNull, globalStart, globalBreakdown,
                    settingsWindow, originalOrderResults,
                    sortedOrders, orderIndex, batches, batchIndex, opIndex, orderResults,
                    batchPrevFPD, batchPrevRunEnd, machineSchedule, operatorSchedule,
                    allResults, alerts, completedOrders, reservationLog, bq >>

\* lines 2571-2611: engine construction, EDD sort, urgent-order alert
RunSort ==
    /\ pc = "start"
    /\ ~ settingsNull
    /\ sortedOrders' = sortOrders(ordersData)
    /\ alerts' = LET urgent == { i \in 1..Len(ordersData) : isUrgentOrder(ordersData[i]) }
                 IN  IF urgent # {}
                     THEN << [kind |-> "urgent", part |-> 0, hours |-> Cardinality(urgent)] >>
                     ELSE << >>
    /\ orderIndex' = 1
    /\ pc' = "orders"
    /\ UNCHANGED << ordersData, inputOrders, settingsNull, globalStart, globalBreakdown,
                    settingsWindow, originalOrderResults,
                    batches, batchIndex, opIndex, orderResults, batchPrevFPD,
                    batchPrevRunEnd, machineSchedule, operatorSchedule, allResults,
                    completedOrders, reservationLog, result, bq >>

\* scheduleOrder lines 347-350: an order without operations throws; runScheduling 2658-2661
OrderWithoutOperations ==
    /\ pc = "orders"
    /\ orderIndex <= Len(sortedOrders)
    /\ Len(CurrentOrder.operations) = 0
    /\ alerts' = Append(alerts, failedAlert(CurrentOrder))
    /\ orderIndex' = orderIndex + 1
    /\ UNCHANGED << ordersData, inputOrders, settingsNull, globalStart, globalBreakdown,
                    settingsWindow, originalOrderResults,
                    sortedOrders, pc, batches, batchIndex, opIndex, orderResults,
                    batchPrevFPD, batchPrevRunEnd, machineSchedule, operatorSchedule,
                    allResults, completedOrders, reservationLog, result, bq >>

\* scheduleOrder lines 352-376: sort the operations in place, plan the batches; the
\* batch modes whose batches are built without a loop
BeginOrder ==
    /\ pc = "orders"
    /\ orderIndex <= Len(sortedOrders)
    /\ Len(CurrentOrder.operations) > 0
    /\ CurrentOrder.batchMode # "custom-batch-size"
    /\ ordersData' = [ordersData EXCEPT ![sortedOrders[orderIndex]].operations =
                          sortOperations(@)]
    /\ batches' = calculateBatchSplitting(CurrentOrder.quantity, CurrentOrder.priority,
                      CurrentOrder.batchMode, CurrentOrder.customBatchSize)
    /\ batchIndex' = 1
    /\ opIndex' = 1
    /\ orderResults' = << >>
    /\ batchPrevFPD' = NoTime
    /\ batchPrevRunEnd' = NoTime
    /\ pc' = "order"
    /\ UNCHANGED << inputOrders, settingsNull, globalStart, globalBreakdown,
                    settingsWindow, originalOrderResults, sortedOrders,
                    orderIndex, machineSchedule, operatorSchedule, allResults, alerts,
                    completedOrders, reservationLog, result, bq >>

\* a call that hands no first-piece-done time of the previous operation on
CurrentStepWithoutFirstPiece ==
    scheduleOperation(CurrentOrder.operations[opIndex], CurrentOrder,
                      batches[batchIndex].quantity, NoTime, batchPrevRunEnd)

\* scheduleOrder lines 385-398: the call of scheduleOperation for the current operation
CurrentStep ==
    scheduleOperation(CurrentOrder.operations[opIndex], CurrentOrder,
                      batches[batchIndex].quantity, batchPrevFPD, batchPrevRunEnd)

\* the reservations of one scheduleOperation call, next to the row it returned
logEntry(r) ==
    [order |-> sortedOrders[orderIndex], batch |-> batchIndex, op |-> opIndex,
     row |-> r.row, reserved |-> r.operatorTarget, selectedAt |-> r.selectedAt,
     previousFirstPieceDone |-> batchPrevFPD, previousRunEnd |-> batchPrevRunEnd]

\* scheduleOrder lines 378-415 around one successful scheduleOperation call
ScheduleOperationStep ==
    /\ pc = "order"
    /\ batchIndex <= Len(batches)
    /\ \E r \in { CurrentStep } :
       LET lastOp == opIndex = Len(CurrentOrder.operations)
       IN  /\ ~ r.threw
           /\ machineSchedule' = r.machineSchedule
           /\ operatorSchedule' = r.operatorSchedule
           /\ reservationLog' = Append(reservationLog, logEntry(r))
           /\ orderResults' = Append(orderResults,
                  [ fld \in (DOMAIN r.row) \cup {"Batch_ID", "Batch_Index", "selectedAt"} |->
                      CASE fld = "Batch_ID" -> batches[batchIndex].batchIndex + 1
                        [] fld = "Batch_Index" -> batchIndex - 1
                        [] fld = "selectedAt" -> r.selectedAt
                        [] OTHER -> r.row[fld] ])
           /\ batchPrevFPD' = IF lastOp THEN NoTime ELSE r.row.firstPieceDone
           /\ batchPrevRunEnd' = IF lastOp THEN NoTime ELSE r.row.RunEnd
           /\ opIndex' = IF lastOp THEN 1 ELSE opIndex + 1
           /\ batchIndex' = IF lastOp THEN batchIndex + 1 ELSE batchIndex
    /\ UNCHANGED << ordersData, inputOrders, settingsNull, globalStart, globalBreakdown,
                    settingsWindow, originalOrderResults,
                    sortedOrders, pc, orderIndex, batches, allResults, alerts,
                    completedOrders, result, bq >>

\* a catch that takes the failed order's reservations out of both ledgers
ScheduleOperationThrowsRollingBack ==
    /\ pc = "order"
    /\ batchIndex <= Len(batches)
    /\ \E r \in { CurrentStep } : r.threw
    /\ LET mine == SelectSeq(reservationLog,
                             LAMBDA entry : entry.order = sortedOrders[orderIndex])
           machineIntervals(m) ==
               { [start |-> mine[e].row.SetupStart, end |-> mine[e].row.RunEnd] :
                   e \in { x \in 1..Len(mine) : mine[x].row.Machine = m } }
           operatorIntervals(o) ==
               { [start |-> mine[e].reserved.start, end |-> mine[e].reserved.end] :
                   e \in { x \in 1..Len(mine) : mine[x].reserved.operator = o } }
       IN  /\ machineSchedule' = [ m \in MachineIds |->
                  SelectSeq(machineSchedule[m], LAMBDA x : x \notin machineIntervals(m)) ]
           /\ operatorSchedule' = [ o \in PersonIds |->
                  SelectSeq(operatorSchedule[o], LAMBDA x : x \notin operatorIntervals(o)) ]
    /\ alerts' = Append(alerts, failedAlert(CurrentOrder))
    /\ orderIndex' = orderIndex + 1
    /\ pc' = "orders"
    /\ batches' = << >>
    /\ orderResults' = << >>
    /\ batchIndex' = 1
    /\ opIndex' = 1
    /\ batchPrevFPD' = NoTime
    /\ batchPrevRunEnd' = NoTime
    /\ UNCHANGED << ordersData, inputOrders, settingsNull, globalStart, globalBreakdown,
                    settingsWindow, originalOrderResults,
                    sortedOrders, allResults, completedOrders,
                    reservationLog, result, bq >>

\* scheduleOperation throws: scheduleOrder rethrows, runScheduling lines 2658-2661
ScheduleOperationThrows ==
    /\ pc = "order"
    /\ batchIndex <= Len(batches)
    /\ \E r \in { CurrentStep } :
        /\ r.threw
        /\ machineSchedule' = IF "machineSchedule" \in DOMAIN r
                              THEN r.machineSchedule ELSE machineSchedule
    /\ alerts' = Append(alerts, failedAlert(CurrentOrder))
    /\ orderIndex' = orderIndex + 1
    /\ pc' = "orders"
    /\ batches' = << >>
    /\ orderResults' = << >>
    /\ batchIndex' = 1
    /\ opIndex' = 1
    /\ batchPrevFPD' = NoTime
    /\ batchPrevRunEnd' = NoTime
    /\ UNCHANGED << ordersData, inputOrders, settingsNull, globalStart, globalBreakdown,
                    settingsWindow, originalOrderResults,
                    sortedOrders, operatorSchedule, allResults, completedOrders,
                    reservationLog, result, bq >>

\* a Date object and the string Date.prototype.toISOString makes of it
dateObject(t) == [date |-> t]
toISOString(t) == [iso |-> t]

\* new Date(v) for a Date object or an ISO string
newDate(v) == IF "iso" \in DOMAIN v THEN v.iso ELSE v.date

\* the text "xD yH zM": the components that are not zero, "0M" when all are zero
formatDurationBreakdown(setupStart, runEnd) ==
    LET totalMinutes == runEnd - setupStart
        days == totalMinutes \div 1440
        hours == (totalMinutes % 1440) \div 60
        minutes == totalMinutes % 60
        text == (IF days > 0 THEN << << days, "D" >> >> ELSE << >>)
                \o (IF hours > 0 THEN << << hours, "H" >> >> ELSE << >>)
                \o (IF minutes > 0 THEN << << minutes, "M" >> >> ELSE << >>)
    IN  IF text = << >> THEN << << 0, "M" >> >> ELSE text

\* a row as scheduleOperation returned it (lines 671-693) and scheduleOrder pushed it
returnedRow(r) ==
    [ fld \in (DOMAIN r) \cup {"Timing"} |->
        CASE fld \in {"SetupStart", "SetupEnd", "RunStart", "RunEnd"} -> dateObject(r[fld])
          [] fld = "Timing" -> formatDurationBreakdown(r.SetupStart, r.RunEnd)
          [] OTHER -> r[fld] ]

calculateFirstPieceDone(operation) ==
    newDate(operation.SetupEnd) + operation.CycleTime_Min

\* an auto-fix that moves the setup and leaves the end of the run where it was
adjustOperationSetupOnly(operation, requiredSetupStart) ==
    LET newSetupEnd == requiredSetupStart + operation.SetupTime_Min
    IN  [operation EXCEPT !.SetupStart = toISOString(requiredSetupStart),
                          !.SetupEnd = toISOString(newSetupEnd),
                          !.RunStart = toISOString(newSetupEnd),
                          !.Timing = formatDurationBreakdown(requiredSetupStart,
                                                             newDate(operation.RunEnd))]

adjustOperationForPieceFlowViolation(operation, requiredSetupStart) ==
    LET newSetupEnd == requiredSetupStart + operation.SetupTime_Min
        newRunStart == newSetupEnd
        newRunEnd == newRunStart + operation.CycleTime_Min * operation.Batch_Qty
    IN  [operation EXCEPT !.SetupStart = toISOString(requiredSetupStart),
                          !.SetupEnd = toISOString(newSetupEnd),
                          !.RunStart = toISOString(newRunStart),
                          !.RunEnd = toISOString(newRunEnd),
                          !.Timing = formatDurationBreakdown(requiredSetupStart, newRunEnd)]

\* the loop over i = 1 .. length - 1 (0-based); each pass reads the rows as the passes
\* before left them
validatePieceFlowTriggers(results) ==
    LET pass[i \in 1..Max(1, Len(results))] ==
            IF i = 1 THEN results
            ELSE LET rows == pass[i - 1]
                     prevOpFirstPieceDone == calculateFirstPieceDone(rows[i - 1])
                 IN  IF newDate(rows[i].SetupStart) < prevOpFirstPieceDone
                     THEN [rows EXCEPT ![i] = adjustOperationForPieceFlowViolation(
                                                  rows[i], prevOpFirstPieceDone)]
                     ELSE rows
    IN  pass[Max(1, Len(results))]

\* scheduleOrder lines 420-445 and runScheduling lines 2619-2656
FinishOrder ==
    /\ pc = "order"
    /\ batchIndex > Len(batches)
    /\ LET order == CurrentOrder
           completion == orderResults[Len(orderResults)].RunEnd
           late == completion > order.dueDate
           hours == lateHours(completion, order.dueDate)
       IN  /\ alerts' = alerts \o
                  (IF late
                   THEN << [kind |-> "will-be-late", part |-> order.partNumber,
                            hours |-> hours],
                           [kind |-> "may-be-late", part |-> order.partNumber,
                            hours |-> hours] >>
                   ELSE << >>)
           /\ allResults' = allResults \o
                  [ i \in 1..Len(orderResults) |-> outputRow(order, orderResults[i]) ]
    /\ completedOrders' = Append(completedOrders, sortedOrders[orderIndex])
    /\ originalOrderResults' = Append(originalOrderResults,
           [partNumber |-> CurrentOrder.partNumber,
            results |-> [ i \in 1..Len(orderResults) |-> returnedRow(orderResults[i]) ]])
    /\ orderIndex' = orderIndex + 1
    /\ pc' = "orders"
    /\ batches' = << >>
    /\ orderResults' = << >>
    /\ batchIndex' = 1
    /\ opIndex' = 1
    /\ UNCHANGED << ordersData, inputOrders, settingsNull, globalStart, globalBreakdown,
                    settingsWindow,
                    sortedOrders, batchPrevFPD, batchPrevRunEnd, machineSchedule,
                    operatorSchedule, reservationLog, result, bq >>

(***************************************************************************)
(* Schedule Validator (lines 2664-2693)                                    *)
(***************************************************************************)
\* validateOperatorSchedule: TRUE when it throws [SETUP-OVERBOOKING]
operatorScheduleViolated(intervals) ==
    \E i \in 1..(Len(intervals) - 1) : intervals[i].end > intervals[i + 1].start

\* intervals.sort by start, then current.end > next.start for neighbours
neighboursOverlap(intervals) ==
    LET sorted == StableSort([ i \in 1..Len(intervals) |->
                     [start |-> intervals[i].start, end |-> intervals[i].end,
                      k1 |-> intervals[i].start, k2 |-> 0] ])
    IN  \E i \in 1..(Len(sorted) - 1) : sorted[i].end > sorted[i + 1].start

validateOperatorShifts(rows) ==
    \A i \in 1..Len(rows) :
        isOperatorOnShift(rows[i].Person, parseFormatted(rows[i].SetupStart),
                          parseFormatted(rows[i].SetupEnd))

validateOperatorOverlaps(rows) ==
    \A operator \in { rows[i].Person : i \in 1..Len(rows) } :
        LET mine == SelectSeq(rows, LAMBDA r : r.Person = operator)
        IN  ~ neighboursOverlap([ i \in 1..Len(mine) |->
                  [start |-> parseFormatted(mine[i].SetupStart),
                   end |-> parseFormatted(mine[i].SetupEnd)] ])

validateMachineExclusivity(rows) ==
    \A machine \in { rows[i].Machine : i \in 1..Len(rows) } :
        LET mine == SelectSeq(rows, LAMBDA r : r.Machine = machine)
        IN  ~ neighboursOverlap([ i \in 1..Len(mine) |->
                  [start |-> parseFormatted(mine[i].SetupStart),
                   end |-> parseFormatted(mine[i].RunEnd)] ])

\* every fifth minute of today's two shifts; today is taken as the day of the global start
validateConcurrentSetupCapacity(rows) ==
    \A hour \in 6..21, fivers \in 0..11 :
        LET checkTime == SetHours(globalStart, hour) + 5 * fivers
        IN  Cardinality({ i \in 1..Len(rows) :
                            /\ checkTime >= parseFormatted(rows[i].SetupStart)
                            /\ checkTime < parseFormatted(rows[i].SetupEnd) }) <= 2

validateCompleteSchedule(rows) ==
    /\ validateOperatorShifts(rows)
    /\ validateOperatorOverlaps(rows)
    /\ validateMachineExclusivity(rows)
    /\ validateConcurrentSetupCapacity(rows)

\* validateConcurrentSetupLimits: TRUE when it throws; every fifth minute of today's two
\* shifts, each operator of the shift counted once against the number of its operators
validateConcurrentSetupLimitsThrows ==
    \E shift \in {"morning", "afternoon"}, hour \in 6..21, fivers \in 0..11 :
        LET operators == { o \in PersonIds : operatorShifts[o].shift = shift }
            checkTime == SetHours(globalStart, hour) + 5 * fivers
            active == { o \in operators :
                          \E k \in 1..Len(operatorSchedule[o]) :
                              /\ checkTime >= operatorSchedule[o][k].start
                              /\ checkTime < operatorSchedule[o][k].end }
        IN  /\ operatorShifts[CHOOSE o \in operators : TRUE].start <= hour
            /\ hour < operatorShifts[CHOOSE o \in operators : TRUE].end
            /\ Cardinality(active) > Cardinality(operators)

\* a failed validation of the returned rows treated like a failed ledger re-validation
rowValidationThrows == ~ validateCompleteSchedule(allResults)

\* validateAllMachineSchedules, validateAllOperatorSchedules (lines 2667-2668): TRUE when
\* one of them throws
ledgerValidationThrows ==
    \/ \E i \in 1..Len(allMachines) : machineScheduleViolated(machineSchedule[allMachines[i]])
    \/ \E i \in 1..Len(allPersons) : operatorScheduleViolated(operatorSchedule[allPersons[i]])
    \/ validateConcurrentSetupLimitsThrows

\* lines 2664-2742: final validation, summary; a ledger re-validation that throws is
\* rethrown to the outer catch
FinishRun ==
    /\ pc = "orders"
    /\ orderIndex > Len(sortedOrders)
    /\ LET finalAlerts ==
               IF ledgerValidationThrows \/ ~ validateCompleteSchedule(allResults)
               THEN Append(alerts, [kind |-> "validation", part |-> 0, hours |-> 0])
               ELSE alerts
           crosses == Len(SelectSeq(finalAlerts, hasCross))
       IN  /\ alerts' = finalAlerts
           /\ result' = IF ledgerValidationThrows THEN fatalResult
                         ELSE [returned |-> TRUE, threw |-> FALSE, rows |-> allResults,
                               alerts |-> finalAlerts,
                               summary |-> [totalOrders |-> Len(ordersData),
                                            totalOperations |-> Len(allResults),
                                            completedSuccessfully |->
                                                Len(sortedOrders) - crosses]]
    /\ originalOrderResults' =
           IF ledgerValidationThrows THEN originalOrderResults
           ELSE [ k \in 1..Len(originalOrderResults) |->
                    [originalOrderResults[k] EXCEPT
                        !.results = validatePieceFlowTriggers(@)] ]
    /\ pc' = "done"
    /\ UNCHANGED << ordersData, inputOrders, settingsNull, globalStart, globalBreakdown,
                    settingsWindow,
                    sortedOrders, orderIndex, batches, batchIndex, opIndex, orderResults,
                    batchPrevFPD, batchPrevRunEnd, machineSchedule, operatorSchedule,
                    allResults, completedOrders, reservationLog, bq >>

(***************************************************************************)
(* Inputs of a run                                                         *)
(***************************************************************************)
MaxOrders == 2
MaxQuantity == 3
CustomSize == 2

operationOf(seq, setup, cycle, machines) ==
    [OperationSeq |-> seq, SetupTime_Min |-> setup, CycleTime_Min |-> cycle,
     EligibleMachines |-> machines]

\* no operation at all; two operations given out of sequence; an operation no machine
\* is eligible for, after two that can be scheduled; an operation whose only eligible
\* machine is none of allMachines; a slow operation followed by a faster one with a
\* short setup
OperationLists ==
    { << >>,
      << operationOf(2, 45, 20, << "VMC 1", "VMC 2" >>),
         operationOf(1, 60, 200, << "VMC 1" >>) >>,
      << operationOf(1, 30, 10, << "VMC 2" >>),
         operationOf(2, 60, 20, << "VMC 1" >>),
         operationOf(3, 30, 5, << >>) >>,
      << operationOf(1, 30, 10, << UnknownMachine >>) >>,
      << operationOf(1, 30, 20, << "VMC 3" >>),
         operationOf(2, 15, 10, << "VMC 4" >>) >> }

StartTimes == { HM(0, 6, 0), HM(0, 13, 30), HM(0, 21, 0) }

\* due date and priority: a tie on the due date, a tie on both, and a later due date
\* with the higher priority
Urgencies ==
    { [dueDate |-> HM(0, 20, 0), priority |-> "Normal"],
      [dueDate |-> HM(0, 20, 0), priority |-> "Urgent"],
      [dueDate |-> HM(3, 0, 0), priority |-> "Urgent"] }

\* one piece, several pieces in one batch, several pieces in several batches
Batchings ==
    { [quantity |-> 1, batchMode |-> "auto-split", customBatchSize |-> CustomSize],
      [quantity |-> MaxQuantity, batchMode |-> "auto-split", customBatchSize |-> CustomSize],
      [quantity |-> MaxQuantity, batchMode |-> "custom-batch-size",
       customBatchSize |-> CustomSize] }

\* a custom batch size below zero, which the order record may carry unchecked
NegativeSizeBatching ==
    [quantity |-> 1, batchMode |-> "custom-batch-size", customBatchSize |-> 0 - 1]

\* three operations with setups of 8, 1 and 30 minutes, which leave the operators of a
\* shift with scores half a point apart
ShortSetupOperations ==
    << operationOf(1, 8, 10, << "VMC 5" >>),
       operationOf(2, 1, 10, << "VMC 6" >>),
       operationOf(3, 30, 10, << "VMC 7" >>) >>

\* one operation whose setup of two hours, started in the morning shift, ends in the
\* afternoon shift
LongSetupOperations == << operationOf(1, 120, 10, << "VMC 5" >>) >>

\* one operation with three eligible machines, for an order that names a breakdown
\* machine of its own
BreakdownOperations == << operationOf(1, 30, 10, << "VMC 1", "VMC 2", "VMC 3" >>) >>

\* globalSettings.productionWindow: "24x7" or a daily range of hours
AroundTheClock == [start |-> 0, end |-> 24, type |-> "24x7"]
DayWindow == [start |-> 6, end |-> 22, type |-> "custom"]
ProductionWindowSettings == { AroundTheClock, DayWindow }

\* globalSettings.breakdownMachines: none, or one machine
GlobalBreakdowns == { << >>, << "VMC 2" >> }

\* every urgency with every batching and operation list; the negative batch size with
\* every operation list; one piece with the short setups and with the long setup; one
\* piece for an order with a breakdown machine
OrderInputs ==
    [urgency : Urgencies, batching : Batchings, operations : OperationLists]
    \cup [urgency : {[dueDate |-> HM(0, 20, 0), priority |-> "Normal"]},
          batching : {NegativeSizeBatching}, operations : OperationLists]
    \cup [urgency : {[dueDate |-> HM(0, 20, 0), priority |-> "Normal"]},
          batching : {[quantity |-> 1, batchMode |-> "auto-split",
                       customBatchSize |-> CustomSize]},
          operations : {ShortSetupOperations, LongSetupOperations}]
    \cup [urgency : {[dueDate |-> HM(0, 20, 0), priority |-> "Normal"]},
          batching : {[quantity |-> 1, batchMode |-> "auto-split",
                       customBatchSize |-> CustomSize]},
          operations : {BreakdownOperations},
          breakdownMachine : {"VMC 1"}]

orderRecord(partNumber, in) ==
    [partNumber |-> partNumber, quantity |-> in.batching.quantity,
     priority |-> in.urgency.priority, dueDate |-> in.urgency.dueDate,
     operations |-> in.operations, batchMode |-> in.batching.batchMode,
     customBatchSize |-> in.batching.customBatchSize,
     breakdownMachine |-> IF "breakdownMachine" \in DOMAIN in THEN in.breakdownMachine
                          ELSE ""]

Idle == [phase |-> "idle"]

Init ==
    /\ \E n \in 1..MaxOrders : \E f \in [1..n -> OrderInputs] :
            ordersData = [ i \in 1..n |-> orderRecord(i, f[i]) ]
    /\ inputOrders = ordersData
    /\ settingsNull \in BOOLEAN
    /\ globalStart \in StartTimes
    /\ globalBreakdown \in GlobalBreakdowns
    /\ Len(ordersData) > 1 => globalBreakdown = << >>
    /\ settingsWindow \in ProductionWindowSettings
    /\ (settingsNull \/ Len(ordersData) > 1) => settingsWindow = AroundTheClock
    /\ originalOrderResults = << >>
    /\ sortedOrders = << >>
    /\ pc = "start"
    /\ orderIndex = 1
    /\ batches = << >>
    /\ batchIndex = 1
    /\ opIndex = 1
    /\ orderResults = << >>
    /\ batchPrevFPD = NoTime
    /\ batchPrevRunEnd = NoTime
    /\ machineSchedule = [ m \in MachineIds |-> << >> ]
    /\ operatorSchedule = [ o \in PersonIds |-> << >> ]
    /\ allResults = << >>
    /\ alerts = << >>
    /\ completedOrders = << >>
    /\ reservationLog = << >>
    /\ result = NoResult
    /\ bq = Idle

(***************************************************************************)
(* Batch Planner, the while loop of the custom-batch-size mode (lines      *)
(* 103-123) taken one iteration at a time; and the planner run on its own, *)
(* called with any quantity, priority, batch mode and custom size          *)
(***************************************************************************)
MaxOvershoot == 3

BatchQuantities == (1..MaxQuantity) \cup {250, 251, 500, 501, 503, 1000, 1001, 1200, 1700}
BatchPriorities == {"Low", "Normal", "High", "Urgent"}
AllBatchModes == {"single-batch", "custom-batch-size", "auto-split"}
\* a negative size, an unset or zero size, and two positive sizes
CustomSizes == {0 - 1, 0, CustomSize, 300}

BatchCalls ==
    [phase : {"called"}, totalQuantity : BatchQuantities, priority : BatchPriorities,
     batchMode : AllBatchModes, customBatchSize : CustomSizes]

batchState(phase, remainingQuantity, batchList) ==
    [phase |-> phase, totalQuantity |-> bq.totalQuantity, priority |-> bq.priority,
     batchMode |-> bq.batchMode, customBatchSize |-> bq.customBatchSize,
     remainingQuantity |-> remainingQuantity, batches |-> batchList]

runUnchanged ==
    UNCHANGED << ordersData, inputOrders, settingsNull, globalStart, globalBreakdown,
                    settingsWindow, originalOrderResults,
                 sortedOrders, pc, orderIndex, batches, batchIndex, opIndex, orderResults,
                 batchPrevFPD, batchPrevRunEnd, machineSchedule, operatorSchedule,
                 allResults, alerts, completedOrders, reservationLog, result >>

\* lines 92-101 and 125-213: the modes that build their batches without a loop
BatchSplitDirect ==
    /\ bq.phase = "called"
    /\ bq.batchMode # "custom-batch-size"
    /\ bq' = batchState("returned", 0,
                 calculateBatchSplitting(bq.totalQuantity, bq.priority, bq.batchMode,
                                         bq.customBatchSize))
    /\ runUnchanged

\* lines 103-107: entry of the custom-batch-size mode
BatchCustomEnter ==
    /\ bq.phase = "called"
    /\ bq.batchMode = "custom-batch-size"
    /\ bq' = batchState("loop", bq.totalQuantity, << >>)
    /\ runUnchanged

\* lines 109-121: one iteration of while (remainingQuantity > 0). With a size below zero
\* every iteration adds to the remaining quantity, so the loop condition stays true for
\* good; the iterations are followed until the remaining quantity is MaxOvershoot above
\* the total, and the state reached there stands for the loop that goes on iterating.
BatchCustomCarve ==
    /\ bq.phase = "loop"
    /\ bq.remainingQuantity > 0
    /\ bq.remainingQuantity <= bq.totalQuantity + MaxOvershoot
    /\ LET batchQuantity == Min(userBatchSize(bq.customBatchSize), bq.remainingQuantity)
       IN  bq' = batchState("loop", bq.remainingQuantity - batchQuantity,
                     Append(bq.batches, [quantity |-> batchQuantity,
                                         batchIndex |-> Len(bq.batches)]))
    /\ runUnchanged

\* line 122: the loop ends and the batches are returned
BatchCustomReturn ==
    /\ bq.phase = "loop"
    /\ bq.remainingQuantity <= 0
    /\ bq' = batchState("returned", 0, bq.batches)
    /\ runUnchanged

InitBatch ==
    /\ bq \in BatchCalls
    /\ ordersData = << >>
    /\ inputOrders = << >>
    /\ settingsNull = FALSE
    /\ globalStart = HM(0, 6, 0)
    /\ globalBreakdown = << >>
    /\ settingsWindow = AroundTheClock
    /\ originalOrderResults = << >>
    /\ sortedOrders = << >>
    /\ pc = "batch"
    /\ orderIndex = 1
    /\ batches = << >>
    /\ batchIndex = 1
    /\ opIndex = 1
    /\ orderResults = << >>
    /\ batchPrevFPD = NoTime
    /\ batchPrevRunEnd = NoTime
    /\ machineSchedule = [ m \in MachineIds |-> << >> ]
    /\ operatorSchedule = [ o \in PersonIds |-> << >> ]
    /\ allResults = << >>
    /\ alerts = << >>
    /\ completedOrders = << >>
    /\ reservationLog = << >>
    /\ result = NoResult

NextBatch ==
    \/ BatchSplitDirect
    \/ BatchCustomEnter
    \/ BatchCustomCarve
    \/ BatchCustomReturn

SpecBatch == InitBatch /\ [][NextBatch]_vars

\* calculateBatchSplitting is one synchronous call: a step that can be taken is taken
SpecBatchLive == SpecBatch /\ WF_vars(NextBatch)

(***************************************************************************)
(* The run: an order in custom-batch-size mode walks the loop of the batch *)
(* planner before its first operation is scheduled                         *)
(***************************************************************************)
\* scheduleOrder lines 352-358: sort the operations in place, call the batch planner,
\* which enters its custom-batch-size loop (lines 103-107)
BeginOrderCustom ==
    /\ pc = "orders"
    /\ orderIndex <= Len(sortedOrders)
    /\ Len(CurrentOrder.operations) > 0
    /\ CurrentOrder.batchMode = "custom-batch-size"
    /\ ordersData' = [ordersData EXCEPT ![sortedOrders[orderIndex]].operations =
                          sortOperations(@)]
    /\ bq' = [phase |-> "loop", totalQuantity |-> CurrentOrder.quantity,
              priority |-> CurrentOrder.priority, batchMode |-> CurrentOrder.batchMode,
              customBatchSize |-> CurrentOrder.customBatchSize,
              remainingQuantity |-> CurrentOrder.quantity, batches |-> << >>]
    /\ pc' = "batching"
    /\ UNCHANGED << inputOrders, settingsNull, globalStart, globalBreakdown,
                    settingsWindow, originalOrderResults, sortedOrders,
                    orderIndex, batches, batchIndex, opIndex, orderResults, batchPrevFPD,
                    batchPrevRunEnd, machineSchedule, operatorSchedule, allResults, alerts,
                    completedOrders, reservationLog, result >>

\* lines 122-123 and scheduleOrder lines 358-376: the loop has ended, the batches are
\* returned to scheduleOrder
BeginOrderBatched ==
    /\ pc = "batching"
    /\ bq.phase = "loop"
    /\ bq.remainingQuantity <= 0
    /\ batches' = bq.batches
    /\ bq' = Idle
    /\ batchIndex' = 1
    /\ opIndex' = 1
    /\ orderResults' = << >>
    /\ batchPrevFPD' = NoTime
    /\ batchPrevRunEnd' = NoTime
    /\ pc' = "order"
    /\ UNCHANGED << ordersData, inputOrders, settingsNull, globalStart, globalBreakdown,
                    settingsWindow, originalOrderResults,
                    sortedOrders, orderIndex, machineSchedule, operatorSchedule,
                    allResults, alerts, completedOrders, reservationLog, result >>

Next ==
    \/ RunFatalSettings
    \/ RunSort
    \/ OrderWithoutOperations
    \/ BeginOrder
    \/ BeginOrderCustom
    \/ BatchCustomCarve
    \/ BeginOrderBatched
    \/ ScheduleOperationStep
    \/ ScheduleOperationThrows
    \/ FinishOrder
    \/ FinishRun

Spec == Init /\ [][Next]_vars

\* scheduleOperation is called for the pending operation of the current batch; the call
\* returns (ScheduleOperationStep) or throws (ScheduleOperationThrows)
operationPending == pc = "order" /\ batchIndex <= Len(batches)

\* runScheduling is one synchronous call: a step that can be taken is taken. The weak
\* fairness of the scheduleOperation step is written out with operationPending, which
\* is its enabling condition.
SpecLive ==
    /\ Spec
    /\ WF_vars(RunFatalSettings)
    /\ WF_vars(RunSort)
    /\ WF_vars(OrderWithoutOperations)
    /\ WF_vars(BeginOrder)
    /\ WF_vars(BeginOrderCustom)
    /\ WF_vars(BatchCustomCarve)
    /\ WF_vars(BeginOrderBatched)
    /\ WF_vars(FinishOrder)
    /\ WF_vars(FinishRun)
    /\ \/ []<>(~ operationPending)
       \/ []<><<ScheduleOperationStep \/ ScheduleOperationThrows>>_vars


(***************************************************************************)
(* Properties of the resource ledgers                                      *)
(***************************************************************************)
pairwiseDisjoint(intervals) ==
    \A i, j \in 1..Len(intervals) :
        i < j => ~ (intervals[i].start < intervals[j].end
                    /\ intervals[j].start < intervals[i].end)

holds(intervals, start, end) ==
    \E i \in 1..Len(intervals) : intervals[i].start = start /\ intervals[i].end = end

\* C1: after any sequence of scheduleOrder calls, no two intervals stored for one
\* machine overlap (start_i < end_j and start_j < end_i never both hold).
C1_MachineIntervalsDisjoint ==
    \A m \in MachineIds : pairwiseDisjoint(machineSchedule[m])

\* a second reservation of a machine that waited for the first one to end
C1_Witness ==
    \E m \in MachineIds : \E i, j \in 1..Len(machineSchedule[m]) :
        /\ i # j
        /\ machineSchedule[m][j].start = machineSchedule[m][i].end
        /\ machineSchedule[m][j].start > globalStart

\* C2: after any sequence of scheduleOrder calls, no two intervals stored for one
\* operator (A, B, C, D) overlap.
C2_OperatorIntervalsDisjoint ==
    \A o \in PersonIds : pairwiseDisjoint(operatorSchedule[o])

\* an operator holds two setups while another operator's setup overlaps one of them
C2_Witness ==
    \E o, other \in PersonIds :
        /\ o # other
        /\ Len(operatorSchedule[o]) >= 2
        /\ \E i \in 1..Len(operatorSchedule[o]), k \in 1..Len(operatorSchedule[other]) :
              /\ operatorSchedule[o][i].start < operatorSchedule[other][k].end
              /\ operatorSchedule[other][k].start < operatorSchedule[o][i].end

\* C3: every interval stored in an operator's ledger lies fully within that operator's
\* shift on a single day (A, B: 06:00-14:00; C, D: 14:00-22:00) and within the setup
\* window 06:00-22:00, also when the machine becomes free after the operator was selected.
C3_OperatorIntervalsInShift ==
    \A o \in PersonIds : \A i \in 1..Len(operatorSchedule[o]) :
        LET interval == operatorSchedule[o][i]
        IN  /\ SetHours(interval.start, operatorShifts[o].start) <= interval.start
            /\ interval.end <= SetHours(interval.start, operatorShifts[o].end)
            /\ SetHours(interval.start, setupWindow.start) <= interval.start
            /\ interval.end <= SetHours(interval.start, setupWindow.end)

\* C4: for every total quantity Q > 0, every priority and every batch mode,
\* calculateBatchSplitting returns at least one batch, every batch quantity is a
\* positive integer, and the batch quantities sum to Q.
C4_BatchesPositiveSumToTotal ==
    /\ bq.phase \in {"loop", "returned"} =>
           \A i \in 1..Len(bq.batches) : bq.batches[i].quantity > 0
    /\ bq.phase = "returned" =>
           /\ Len(bq.batches) >= 1
           /\ SumSeq([ i \in 1..Len(bq.batches) |-> bq.batches[i].quantity ])
                  = bq.totalQuantity
    /\ bq.phase = "loop" /\ bq.remainingQuantity > 0 =>
           bq.remainingQuantity <= bq.totalQuantity

\* C5: for consecutive operations of one batch, the later operation's run end is not
\* before the earlier operation's run end.
C5_RunEndMonotonic ==
    \A i \in 2..Len(reservationLog) :
        (reservationLog[i].order = reservationLog[i - 1].order
         /\ reservationLog[i].batch = reservationLog[i - 1].batch)
        => reservationLog[i].row.RunEnd >= reservationLog[i - 1].row.RunEnd

\* the run end of a later operation was raised to the previous run end plus one cycle
C5_Witness ==
    \E i \in 2..Len(reservationLog) :
        /\ reservationLog[i].order = reservationLog[i - 1].order
        /\ reservationLog[i].batch = reservationLog[i - 1].batch
        /\ reservationLog[i].row.RunEnd =
               reservationLog[i - 1].row.RunEnd + reservationLog[i].row.CycleTime_Min
        /\ reservationLog[i].row.RunEnd >
               reservationLog[i].row.SetupEnd
               + reservationLog[i].row.Batch_Qty * reservationLog[i].row.CycleTime_Min

\* C6: for consecutive operations of one batch, the setup of the later operation starts
\* before the earlier operation's first piece is done only if that setup also ends at
\* or before the first-piece-done time.
C6_SetupAfterFirstPiece ==
    \A i \in 2..Len(reservationLog) :
        (reservationLog[i].order = reservationLog[i - 1].order
         /\ reservationLog[i].batch = reservationLog[i - 1].batch
         /\ reservationLog[i].row.SetupStart < reservationLog[i - 1].row.firstPieceDone)
        => reservationLog[i].row.SetupEnd <= reservationLog[i - 1].row.firstPieceDone

\* the setup of a later operation starts exactly when the earlier operation's first
\* piece is done, a time its setup could not have ended by
C6_Witness ==
    \E i \in 2..Len(reservationLog) :
        /\ reservationLog[i].order = reservationLog[i - 1].order
        /\ reservationLog[i].batch = reservationLog[i - 1].batch
        /\ reservationLog[i].row.SetupStart = reservationLog[i - 1].row.firstPieceDone
        /\ reservationLog[i].row.SetupStart > globalStart

\* C7: for every row scheduleOperation returns, the row's machine holds
\* [SetupStart, RunEnd) and the row's Person holds [SetupStart, SetupEnd); no row
\* names an operator or a setup time other than the one reserved.
C7_RowsAgreeWithLedger ==
    \A i \in 1..Len(reservationLog) :
        LET row == reservationLog[i].row
        IN  /\ holds(machineSchedule[row.Machine], row.SetupStart, row.RunEnd)
            /\ holds(operatorSchedule[row.Person], row.SetupStart, row.SetupEnd)
            /\ reservationLog[i].reserved =
                   [operator |-> row.Person, start |-> row.SetupStart,
                    end |-> row.SetupEnd]

comesBefore(a, b) ==
    \/ inputOrders[a].dueDate < inputOrders[b].dueDate
    \/ /\ inputOrders[a].dueDate = inputOrders[b].dueDate
       /\ \/ priorityWeight[inputOrders[a].priority] > priorityWeight[inputOrders[b].priority]
          \/ /\ inputOrders[a].priority = inputOrders[b].priority
             /\ a < b

\* C8: runScheduling reserves order by order in the sorted sequence (due date
\* ascending, then priority Urgent > High > Normal > Low, ties in input order): every
\* reservation of an order is made before the first reservation of the next order.
C8_ReservedInSortedOrder ==
    /\ pc # "start" /\ ~ settingsNull =>
           /\ { sortedOrders[i] : i \in 1..Len(sortedOrders) } = 1..Len(inputOrders)
           /\ \A i, j \in 1..Len(sortedOrders) :
                  i < j => comesBefore(sortedOrders[i], sortedOrders[j])
    /\ \A i, j \in 1..Len(reservationLog) :
           i < j => IndexOf(sortedOrders, reservationLog[i].order)
                    <= IndexOf(sortedOrders, reservationLog[j].order)

\* the second order of the input was reserved first
C8_Witness ==
    /\ Len(sortedOrders) = 2
    /\ sortedOrders[1] = 2
    /\ \E i, j \in 1..Len(reservationLog) :
           i < j /\ reservationLog[i].order = 2 /\ reservationLog[j].order = 1

failedOrders == { result.alerts[i].part : i \in { k \in 1..Len(result.alerts) :
                                                    result.alerts[k].kind = "failed" } }

rowsOf(partNumber) == SelectSeq(result.rows, LAMBDA row : row.PartNumber = partNumber)

\* C9: an order whose scheduling throws (it has no operations, for one) gets exactly one
\* failure alert and no row, and every other order is still scheduled and its rows are
\* returned.
C9_FailureIsolated ==
    (pc = "done" /\ ~ settingsNull) =>
        \A o \in 1..Len(inputOrders) :
            LET operations == inputOrders[o].operations
                throws == \/ Len(operations) = 0
                          \/ \E k \in 1..Len(operations) :
                                Len(operations[k].EligibleMachines) = 0
                alertsOf == SelectSeq(result.alerts,
                                LAMBDA a : a.kind = "failed" /\ a.part = o)
            IN  IF throws
                THEN Len(alertsOf) = 1 /\ Len(rowsOf(o)) = 0
                ELSE /\ Len(alertsOf) = 0
                     /\ Len(rowsOf(o)) =
                            Len(operations)
                            * Len(calculateBatchSplitting(inputOrders[o].quantity,
                                      inputOrders[o].priority, inputOrders[o].batchMode,
                                      inputOrders[o].customBatchSize))

\* an order without operations comes first, and the order after it is scheduled
C9_Witness ==
    /\ pc = "done"
    /\ ~ settingsNull
    /\ Len(sortedOrders) = 2
    /\ Len(inputOrders[sortedOrders[1]].operations) = 0
    /\ sortedOrders[1] \in failedOrders
    /\ Len(rowsOf(sortedOrders[2])) > 0

latenessAlertsOf(partNumber) ==
    SelectSeq(result.alerts,
              LAMBDA a : a.kind \in {"will-be-late", "may-be-late"} /\ a.part = partNumber)

\* C12: an order whose last operation ends after its due date gets exactly one lateness
\* alert, naming the part and ceil((completion - due) / one hour) hours; an order that
\* completes on time gets none.
C12_OneLatenessAlert ==
    (pc = "done" /\ ~ settingsNull /\ result.returned) =>
        \A k \in 1..Len(completedOrders) :
            LET partNumber == completedOrders[k]
                rows == rowsOf(partNumber)
                completion == parseFormatted(rows[Len(rows)].RunEnd)
                due == inputOrders[partNumber].dueDate
                late == latenessAlertsOf(partNumber)
            IN  IF completion > due
                THEN Len(late) = 1 /\ late[1].hours = CeilDiv(completion - due, 60)
                ELSE Len(late) = 0

\* a run that returned the rows of an order completed after its due date
C12_Witness ==
    /\ pc = "done"
    /\ ~ settingsNull
    /\ \E k \in 1..Len(completedOrders) :
          LET rows == rowsOf(completedOrders[k])
          IN  /\ Len(rows) > 0
              /\ parseFormatted(rows[Len(rows)].RunEnd) > inputOrders[completedOrders[k]].dueDate
              /\ Len(latenessAlertsOf(completedOrders[k])) > 0

(***************************************************************************)
(* Properties of the batch planner                                         *)
(***************************************************************************)
batchQuantities == [ i \in 1..Len(bq.batches) |-> bq.batches[i].quantity ]

autoSplitReturned == bq.phase = "returned" /\ bq.batchMode = "auto-split"

highPriority == bq.priority \in {"High", "Urgent"}

\* quantities of n batches: floor(Q/n), the first (Q mod n) one piece larger
nearEqual(Q, n) == [ i \in 1..n |-> (Q \div n) + (IF i <= Q % n THEN 1 ELSE 0) ]

\* C13: in auto-split mode, whatever the priority, Q <= 250 gives one batch of Q and
\* 250 < Q <= 500 gives the two batches ceil(Q/2) and Q - ceil(Q/2), in that order.
C13_AutoSplitUpTo500 ==
    autoSplitReturned =>
        LET Q == bq.totalQuantity
        IN  /\ Q <= 250 => batchQuantities = << Q >>
            /\ (250 < Q /\ Q <= 500) =>
                   batchQuantities = << (Q + 1) \div 2, Q - ((Q + 1) \div 2) >>
            /\ Q = 251 => batchQuantities = << 126, 125 >>

\* auto-split has returned the two batches of an odd quantity
C13_Witness ==
    /\ autoSplitReturned
    /\ bq.totalQuantity = 251
    /\ Len(bq.batches) = 2

\* C14: in auto-split mode with 500 < Q <= 1000 a High or Urgent order gets 3 batches,
\* any other order 3 batches if Q mod 3 < Q mod 2 and 2 otherwise; the sizes are
\* floor(Q/n) with the first Q mod n batches one larger, so they differ by at most 1.
C14_AutoSplitUpTo1000 ==
    (autoSplitReturned /\ 500 < bq.totalQuantity /\ bq.totalQuantity <= 1000) =>
        LET Q == bq.totalQuantity
            n == IF highPriority THEN 3 ELSE IF Q % 3 < Q % 2 THEN 3 ELSE 2
        IN  /\ batchQuantities = nearEqual(Q, n)
            /\ \A i, j \in 1..Len(bq.batches) :
                   bq.batches[i].quantity - bq.batches[j].quantity <= 1
            /\ (Q = 1000 /\ bq.priority = "Normal") => batchQuantities = << 500, 500 >>

\* auto-split has returned three batches for an order of normal priority
C14_Witness ==
    /\ autoSplitReturned
    /\ bq.totalQuantity = 501
    /\ bq.priority = "Normal"
    /\ Len(bq.batches) = 3

\* C15: in auto-split mode with Q > 1000 the number of batches is ceil(Q/334) for High
\* or Urgent and ceil(Q/500) otherwise; the sizes are floor(Q/n) with the first Q mod n
\* batches one larger.
C15_AutoSplitAbove1000 ==
    (autoSplitReturned /\ bq.totalQuantity > 1000) =>
        LET Q == bq.totalQuantity
            n == IF highPriority THEN (Q + 333) \div 334 ELSE (Q + 499) \div 500
        IN  /\ Len(bq.batches) = n
            /\ batchQuantities = nearEqual(Q, n)
            /\ (Q = 1200 /\ bq.priority = "High") =>
                   batchQuantities = << 300, 300, 300, 300 >>

\* auto-split has returned batches of unequal size for more than 1000 pieces
C15_Witness ==
    /\ autoSplitReturned
    /\ bq.totalQuantity = 1001
    /\ bq.priority = "High"
    /\ batchQuantities = << 334, 334, 333 >>

\* the custom size the planner is to work with: an unset, zero, negative or non-numeric
\* value counts as 300
effectiveCustomSize == IF bq.customBatchSize > 0 THEN bq.customBatchSize ELSE 300

\* C16: in custom-batch-size mode calculateBatchSplitting terminates for every Q > 0 and
\* every custom size; an unset or invalid size is treated as 300; every batch but the
\* last has the custom size and the last holds the remainder.
C16_CustomBatchesTerminate ==
    /\ <>(bq.phase = "returned")
    /\ [](bq.batchMode = "custom-batch-size" =>
            /\ bq.phase \in {"loop", "returned"} =>
                   \A i \in 1..(Len(bq.batches) - 1) :
                       bq.batches[i].quantity = effectiveCustomSize
            /\ bq.phase = "returned" =>
                   LET n == Len(bq.batches)
                   IN  /\ n = CeilDiv(bq.totalQuantity, effectiveCustomSize)
                       /\ bq.batches[n].quantity
                              = bq.totalQuantity - (n - 1) * effectiveCustomSize)

\* the loop has returned several batches of the custom size and a smaller last one
C16_Witness ==
    /\ bq.phase = "returned"
    /\ bq.batchMode = "custom-batch-size"
    /\ bq.customBatchSize = CustomSize
    /\ Len(bq.batches) >= 2
    /\ bq.batches[Len(bq.batches)].quantity < CustomSize

(***************************************************************************)
(* Reference piece-level algorithm: testUserAlgorithm (lines 2938-3044)    *)
(* and testPieceLevelScheduling (lines 2746-2859), which run the same loop *)
(* over operations and pieces; called on its own with any batch quantity,  *)
(* setup time and cycle times, one operation per step                      *)
(***************************************************************************)
MaxPieces == 4
MaxReferenceOps == 3

\* the start of a piece taken as the time the piece is ready, whatever the machine does
referencePieceStartWhenReady(pieceReadyTime, machineAvailableTime) == pieceReadyTime

\* lines 2975-2976: the machine starts when the piece is ready and the machine is free
referencePieceStart(pieceReadyTime, machineAvailableTime) ==
    Max(pieceReadyTime, machineAvailableTime)

\* lines 2965-2984: the completion times of the pieces of one operation; previousPieces
\* is << >> for the first operation
referencePieceCompletions(setupEnd, batchQty, cycleTime, previousPieces) ==
    LET f[piece \in 1..batchQty] ==
            LET pieceReadyTime ==
                    IF previousPieces = << >> THEN setupEnd ELSE previousPieces[piece]
                machineAvailableTime == IF piece = 1 THEN setupEnd ELSE f[piece - 1]
            IN  referencePieceStart(pieceReadyTime, machineAvailableTime) + cycleTime
    IN  [ piece \in 1..batchQty |-> f[piece] ]

\* lines 2952-3003: one iteration of the loop over the operations
referenceOperation(results, startTime, batchQty, setupTime, cycleTime) ==
    LET prevOpResults == IF results = << >> THEN << >> ELSE results[Len(results)]
        setupStart == IF results = << >> THEN startTime ELSE prevOpResults.firstPieceDone
        setupEnd == setupStart + setupTime
        pieceCompletionTimes ==
            referencePieceCompletions(setupEnd, batchQty, cycleTime,
                IF results = << >> THEN << >> ELSE prevOpResults.pieceCompletionTimes)
    IN  [OperationSeq |-> Len(results) + 1,
         SetupStart |-> setupStart,
         SetupEnd |-> setupEnd,
         RunStart |-> pieceCompletionTimes[1] - cycleTime,
         RunEnd |-> pieceCompletionTimes[batchQty],
         pieceCompletionTimes |-> pieceCompletionTimes,
         firstPieceDone |-> pieceCompletionTimes[1],
         lastPieceDone |-> pieceCompletionTimes[batchQty]]

\* lines 2942-2947: the parameters of the test
testParams ==
    [batchQty |-> 4, setupTime |-> 70, cycleTimes |-> << 18, 10, 1, 1 >>,
     startTime |-> HM(0, 7, 0)]

ReferenceCycleTimes == {1, 10, 18}

ReferenceCalls ==
    { testParams }
    \cup { [batchQty |-> q, setupTime |-> s, cycleTimes |-> c, startTime |-> HM(0, 7, 0)] :
             q \in 1..MaxPieces, s \in {1, 70},
             c \in UNION { [1..n -> ReferenceCycleTimes] : n \in 1..MaxReferenceOps } }

ReferenceOperationStep ==
    /\ bq.phase = "reference"
    /\ Len(bq.results) < Len(bq.params.cycleTimes)
    /\ bq' = [bq EXCEPT !.results =
                 Append(@, referenceOperation(bq.results, bq.params.startTime,
                               bq.params.batchQty, bq.params.setupTime,
                               bq.params.cycleTimes[Len(bq.results) + 1]))]
    /\ runUnchanged

\* line 3043: the results are returned
ReferenceReturn ==
    /\ bq.phase = "reference"
    /\ Len(bq.results) = Len(bq.params.cycleTimes)
    /\ bq' = [bq EXCEPT !.phase = "reference-returned"]
    /\ runUnchanged

InitReference ==
    /\ \E call \in ReferenceCalls : bq = [phase |-> "reference", params |-> call, results |-> << >>]
    /\ ordersData = << >>
    /\ inputOrders = << >>
    /\ settingsNull = FALSE
    /\ globalStart = HM(0, 7, 0)
    /\ globalBreakdown = << >>
    /\ settingsWindow = AroundTheClock
    /\ originalOrderResults = << >>
    /\ sortedOrders = << >>
    /\ pc = "reference"
    /\ orderIndex = 1
    /\ batches = << >>
    /\ batchIndex = 1
    /\ opIndex = 1
    /\ orderResults = << >>
    /\ batchPrevFPD = NoTime
    /\ batchPrevRunEnd = NoTime
    /\ machineSchedule = [ m \in MachineIds |-> << >> ]
    /\ operatorSchedule = [ o \in PersonIds |-> << >> ]
    /\ allResults = << >>
    /\ alerts = << >>
    /\ completedOrders = << >>
    /\ reservationLog = << >>
    /\ result = NoResult

NextReference ==
    \/ ReferenceOperationStep
    \/ ReferenceReturn

SpecReference == InitReference /\ [][NextReference]_vars

\* lines 3008: the completion times the test expects, operation by operation
expectedTimes == << HM(0, 9, 22), HM(0, 10, 18), HM(0, 11, 2), HM(0, 12, 13) >>

\* C17: in the reference algorithm the last piece of the first operation completes at
\* start + setup + batchQty * cycle, first-piece-done grows strictly from operation to
\* operation, and the 4-piece scenario (setup 70, cycles 18, 10, 1, 1, start 07:00)
\* completes its operations at 09:22, 10:18, 11:02 and 12:13.
C17_ReferenceAlgorithm ==
    bq.phase \in {"reference", "reference-returned"} =>
        /\ Len(bq.results) >= 1 =>
               bq.results[1].lastPieceDone =
                   bq.params.startTime + bq.params.setupTime
                   + bq.params.batchQty * bq.params.cycleTimes[1]
        /\ \A n \in 2..Len(bq.results) :
               bq.results[n].firstPieceDone > bq.results[n - 1].firstPieceDone
        /\ bq.params = testParams =>
               \A n \in 1..Len(bq.results) : bq.results[n].lastPieceDone = expectedTimes[n]

\* the test scenario has been run through its four operations
C17_Witness ==
    /\ bq.phase = "reference-returned"
    /\ bq.params = testParams
    /\ Len(bq.results) = 4
    /\ bq.results[4].lastPieceDone = HM(0, 12, 13)

\* the orders of the run one of whose operations names a machine outside allMachines
ordersNamingUnknownMachine ==
    { i \in 1..Len(ordersData) :
        \E k \in 1..Len(ordersData[i].operations) :
            Includes(ordersData[i].operations[k].EligibleMachines, UnknownMachine) }

\* C18: an order with an operation naming a machine the engine does not know is
\* rejected: it is reported as failed in an alert, it contributes no rows, and the
\* unknown machine is never reserved.
C18_UnknownMachineRejected ==
    /\ machineSchedule[UnknownMachine] = << >>
    /\ (pc = "done" /\ result.returned /\ ~ settingsNull) =>
          \A i \in ordersNamingUnknownMachine :
              /\ rowsOf(ordersData[i].partNumber) = << >>
              /\ ordersData[i].partNumber \in failedOrders

\* a run has returned rows on the unknown machine, which is reserved in the ledger
C18_Witness ==
    /\ pc = "done"
    /\ result.returned
    /\ machineSchedule[UnknownMachine] # << >>
    /\ \E i \in ordersNamingUnknownMachine :
          \E k \in 1..Len(result.rows) :
              /\ result.rows[k].PartNumber = ordersData[i].partNumber
              /\ result.rows[k].Machine = UnknownMachine

\* scheduleOrder has scheduled every batch of the current order and is about to return
scheduleOrderReturns == pc = "order" /\ batchIndex > Len(batches)

\* C19: the rows scheduleOrder collects are one per (batch, operation) pair, batch by
\* batch in the order of the batch planner and by ascending operation sequence inside a
\* batch, each with the id and quantity of its batch; when scheduleOrder returns without
\* error there are (number of batches) x (number of operations) of them.
C19_RowPerBatchAndOperation ==
    pc = "order" =>
        LET operations == CurrentOrder.operations
            nOps == Len(operations)
        IN  /\ Len(orderResults) = (batchIndex - 1) * nOps + (opIndex - 1)
            /\ scheduleOrderReturns => Len(orderResults) = Len(batches) * nOps
            /\ \A i \in 1..Len(orderResults) :
                  LET b == ((i - 1) \div nOps) + 1
                      k == ((i - 1) % nOps) + 1
                  IN  /\ orderResults[i].Batch_ID = batches[b].batchIndex + 1
                      /\ orderResults[i].Batch_ID = b
                      /\ orderResults[i].Batch_Qty = batches[b].quantity
                      /\ orderResults[i].OperationSeq = operations[k].OperationSeq
                      /\ k > 1 => orderResults[i - 1].OperationSeq
                                      < orderResults[i].OperationSeq

\* scheduleOrder returns the rows of two batches of different quantity with two
\* operations each, for an order whose operations were given out of sequence
C19_Witness ==
    /\ scheduleOrderReturns
    /\ Len(batches) = 2
    /\ batches[1].quantity # batches[2].quantity
    /\ Len(CurrentOrder.operations) = 2
    /\ inputOrders[sortedOrders[orderIndex]].operations[1].OperationSeq = 2
    /\ Len(orderResults) = 4

\* C20: in the rows scheduleOrder collects, for every batch, every pair of consecutive
\* operations and every piece of the batch, the piece completes in the later operation
\* no earlier than one cycle after it completed in the earlier one:
\* pieceCompletion_n[i] >= pieceCompletion_(n-1)[i] + cycleTime_n.
C20_PieceFollowsPiece ==
    pc = "order" =>
        \A i \in 2..Len(orderResults) :
            orderResults[i].Batch_Index = orderResults[i - 1].Batch_Index =>
                \A piece \in 1..orderResults[i].Batch_Qty :
                    orderResults[i].pieceCompletionTimes[piece]
                        >= orderResults[i - 1].pieceCompletionTimes[piece]
                           + orderResults[i].CycleTime_Min

\* two consecutive operations of a batch of several pieces have been scheduled, and the
\* last piece starts in the second operation before it has completed in the first
C20_Witness ==
    /\ pc = "order"
    /\ \E i \in 2..Len(orderResults) :
          /\ orderResults[i].Batch_Index = orderResults[i - 1].Batch_Index
          /\ orderResults[i].Batch_Qty > 1
          /\ LET last == orderResults[i].Batch_Qty
             IN  orderResults[i].pieceCompletionTimes[last] - orderResults[i].CycleTime_Min
                     < orderResults[i - 1].pieceCompletionTimes[last]

\* the loop of testUserAlgorithm (lines 2952-3003) run over the operations of an order,
\* each with its own setup and cycle time
referenceResults(startTime, batchQty, operations) ==
    LET f[n \in 0..Len(operations)] ==
            IF n = 0 THEN << >>
            ELSE Append(f[n - 1],
                        referenceOperation(f[n - 1], startTime, batchQty,
                                           operations[n].SetupTime_Min,
                                           operations[n].CycleTime_Min))
    IN  f[Len(operations)]

\* every operation has an eligible machine that no earlier operation of the order can take
distinctMachinesAvailable(operations) ==
    \A k \in 1..Len(operations) :
        \E m \in SeqToSet(operations[k].EligibleMachines) :
            \A j \in 1..(k - 1) : ~ Includes(operations[j].EligibleMachines, m)

\* the first batch of the first order that reserves anything, started at the opening of
\* the setup window, with a free machine for every operation
unconstrainedBatch ==
    /\ pc = "order"
    /\ globalStart = HM(0, 6, 0)
    /\ \A e \in 1..Len(reservationLog) : reservationLog[e].order = CurrentOrder.partNumber
    /\ distinctMachinesAvailable(CurrentOrder.operations)

\* the timing of a row of scheduleOrder and of a result of the reference algorithm agree
sameTiming(row, reference) ==
    /\ row.SetupStart = reference.SetupStart
    /\ row.SetupEnd = reference.SetupEnd
    /\ row.firstPieceDone = reference.firstPieceDone
    /\ row.pieceCompletionTimes = reference.pieceCompletionTimes
    /\ row.RunEnd = reference.RunEnd

\* C21: with operators and distinct unused machines available and all times inside the
\* setup window, the setup start, setup end, first-piece-done, piece completion times
\* and run end of every operation of a batch are those of the reference piece-level
\* algorithm of testUserAlgorithm.
C21_TimingEqualsReference ==
    unconstrainedBatch =>
        \A i \in 1..Len(orderResults) :
            orderResults[i].Batch_Index = 0 =>
                sameTiming(orderResults[i],
                    referenceResults(globalStart, batches[1].quantity,
                                     CurrentOrder.operations)[i])

\* a batch of several pieces has gone through two operations with the timing of the
\* reference algorithm
C21_Witness ==
    /\ unconstrainedBatch
    /\ Len(orderResults) >= 2
    /\ batches[1].quantity > 1
    /\ orderResults[2].Batch_Index = 0
    /\ \A i \in 1..2 :
          sameTiming(orderResults[i],
              referenceResults(globalStart, batches[1].quantity,
                               CurrentOrder.operations)[i])

\* the piece completion times of a logged call before the run-end rule is applied
naturalPieces(entry) ==
    pieceCompletions(entry.row.SetupEnd, entry.row.Batch_Qty, entry.row.CycleTime_Min,
        IF entry.previousFirstPieceDone = NoTime THEN << >>
        ELSE << entry.previousFirstPieceDone >>)

\* the previous operation ended after the natural run end of the logged call
runEndForced(entry) ==
    /\ entry.previousRunEnd # NoTime
    /\ entry.previousRunEnd > naturalPieces(entry)[entry.row.Batch_Qty]

\* C22: in the timing of every scheduled operation run start equals setup end,
\* first-piece-done is the first and run end the last piece completion, and the piece
\* completions never decrease; when the previous operation's run end exceeds the natural
\* run end, run end is the previous run end plus one cycle and every piece completion is
\* moved by the same amount.
C22_TimingEqualities ==
    \A e \in 1..Len(reservationLog) :
        LET entry == reservationLog[e]
            row == entry.row
            pieces == row.pieceCompletionTimes
            batchQty == row.Batch_Qty
            natural == naturalPieces(entry)
        IN  /\ row.RunStart = row.SetupEnd
            /\ Len(pieces) = batchQty
            /\ row.firstPieceDone = pieces[1]
            /\ row.RunEnd = pieces[batchQty]
            /\ \A p \in 2..batchQty : pieces[p - 1] <= pieces[p]
            /\ runEndForced(entry) =>
                  /\ row.RunEnd = entry.previousRunEnd + row.CycleTime_Min
                  /\ \A p \in 1..batchQty :
                        pieces[p] - natural[p] = row.RunEnd - natural[batchQty]

\* an operation on several pieces was scheduled whose natural run end lay before the
\* run end of the previous operation
C22_Witness ==
    \E e \in 1..Len(reservationLog) :
        /\ runEndForced(reservationLog[e])
        /\ reservationLog[e].row.Batch_Qty > 1
        /\ reservationLog[e].row.RunEnd
               = reservationLog[e].previousRunEnd + reservationLog[e].row.CycleTime_Min

\* a time of day inside the setup window, its closing minute included
insideSetupWindow(t) ==
    /\ Hours(t) >= setupWindow.start
    /\ \/ Hours(t) < setupWindow.end
       \/ Hours(t) = setupWindow.end /\ Mins(t) = 0

\* C23: for every scheduled operation the setup ends one setup duration after it
\* starts, and setup start and setup end lie inside the setup window (06:00-22:00) of
\* the same day, a setup that does not fit having been moved as a whole.
C23_SetupInsideWindow ==
    \A e \in 1..Len(reservationLog) :
        LET row == reservationLog[e].row
        IN  /\ row.SetupEnd = row.SetupStart + row.SetupTime_Min
            /\ insideSetupWindow(row.SetupStart)
            /\ insideSetupWindow(row.SetupEnd)
            /\ Day(row.SetupStart) = Day(row.SetupEnd)

\* an operation was scheduled with its setup starting on one day and ending on the next
C23_Witness ==
    \E e \in 1..Len(reservationLog) :
        /\ Day(reservationLog[e].row.SetupEnd) > Day(reservationLog[e].row.SetupStart)
        /\ reservationLog[e].row.SetupEnd - reservationLog[e].row.SetupStart
               > reservationLog[e].row.SetupTime_Min

\* the intervals of one resource are in the order of their starts
sortedByStart(intervals) ==
    \A i \in 2..Len(intervals) : intervals[i - 1].start <= intervals[i].start

\* the operator interval scheduleOperation asked reserveOperator to store (line 663)
requestedOperatorInterval(entry) ==
    [operator |-> entry.row.Person, start |-> entry.row.SetupStart,
     end |-> entry.row.SetupEnd]

\* C24: a reserve call, for a machine or for an operator, that returns without the
\* 'scheduling integrity violated' error did not overlap a stored interval of the
\* resource: the interval it was called with is stored for that resource, and the list
\* of the resource is sorted by start.
C24_OverlappingReserveRaises ==
    /\ \A m \in MachineIds : sortedByStart(machineSchedule[m])
    /\ \A o \in PersonIds : sortedByStart(operatorSchedule[o])
    /\ \A e \in 1..Len(reservationLog) :
          LET entry == reservationLog[e]
              row == entry.row
          IN  /\ holds(machineSchedule[row.Machine], row.SetupStart, row.RunEnd)
              /\ entry.reserved = requestedOperatorInterval(entry)
              /\ holds(operatorSchedule[row.Person], row.SetupStart, row.SetupEnd)

\* reserveOperator was called with an interval that overlapped a stored one of the
\* operator, returned, and stored another interval instead
C24_Witness ==
    \E e \in 1..Len(reservationLog) :
        /\ reservationLog[e].reserved # requestedOperatorInterval(reservationLog[e])
        /\ holds(operatorSchedule[reservationLog[e].reserved.operator],
                 reservationLog[e].reserved.start, reservationLog[e].reserved.end)

\* the operator and the setup interval of the pending scheduleOperation call after the
\* operator selection (lines 478-509), as they are handed to handleSetupSpillover
pendingSelection ==
    LET operation == CurrentOrder.operations[opIndex]
        preliminaryTiming ==
            calculatePreliminaryTiming(operation,
                IF batchPrevFPD # NoTime THEN Max(globalStart, batchPrevFPD)
                ELSE globalStart)
        operatorResult ==
            selectOptimalPerson(preliminaryTiming.setupStart, preliminaryTiming.setupEnd)
        delayed == operatorResult.delayedStart # NoTime
    IN  [operator |-> IF delayed /\ operatorResult.operator = NoOperator THEN "A"
                      ELSE operatorResult.operator,
         setupStart |-> IF delayed THEN operatorResult.delayedStart
                        ELSE preliminaryTiming.setupStart,
         setupEnd |-> IF delayed THEN operatorResult.delayedStart + operation.SetupTime_Min
                      ELSE preliminaryTiming.setupEnd]

\* the operator and setup interval the pending call holds after the spillover handling
\* (lines 510-519), before the conflict check of line 527
pendingSpillover ==
    handleSetupSpillover(pendingSelection.operator, pendingSelection.setupStart,
                         pendingSelection.setupEnd,
                         CurrentOrder.operations[opIndex].SetupTime_Min)

\* the operator collides, no other operator on shift is free for the interval, and no
\* delay of 1 to 15 minutes gives an operator on shift a free interval (lines 527-578)
strategiesExhausted(chosen) ==
    /\ hasOperatorConflict(chosen.operator, chosen.actualSetupStart, chosen.actualSetupEnd)
    /\ \A o \in SeqToSet(getOperatorsOnShift(chosen.actualSetupStart, chosen.actualSetupEnd)) :
          o # chosen.operator =>
              hasOperatorConflict(o, chosen.actualSetupStart, chosen.actualSetupEnd)
    /\ \A d \in 1..15 :
          \A o \in SeqToSet(getOperatorsOnShift(chosen.actualSetupStart + d,
                                                chosen.actualSetupEnd + d)) :
              hasOperatorConflict(o, chosen.actualSetupStart + d, chosen.actualSetupEnd + d)

callExhaustsStrategies ==
    /\ operationPending
    /\ Len(CurrentOrder.operations[opIndex].EligibleMachines) > 0
    /\ strategiesExhausted(pendingSpillover)


\* C25: when the operator of a scheduleOperation call collides and every strategy of
\* the conflict resolution fails, the call fails: the order gets its failure alert and
\* is skipped, and no operator is reserved for the operation.
C25_ExhaustionIsFatal ==
    [][ callExhaustsStrategies =>
            /\ alerts' = Append(alerts, failedAlert(CurrentOrder))
            /\ operatorSchedule' = operatorSchedule
            /\ reservationLog' = reservationLog ]_vars

\* a pending call has exhausted the strategies and is given an operator all the same
C25_Witness ==
    /\ callExhaustsStrategies
    /\ Includes(allPersons,
                resolveSelectedOperator(pendingSpillover.operator,
                    pendingSpillover.actualSetupStart, pendingSpillover.actualSetupEnd,
                    CurrentOrder.operations[opIndex].SetupTime_Min).operator)

\* the setup interval for which the pending scheduleOperation call asks
\* selectOptimalPerson (lines 478-495)
pendingRequest ==
    calculatePreliminaryTiming(CurrentOrder.operations[opIndex],
        IF batchPrevFPD # NoTime THEN Max(globalStart, batchPrevFPD) ELSE globalStart)

\* the operators on shift for the interval that hold no colliding reservation
freeOnShift(setupStart, setupEnd) ==
    { o \in SeqToSet(getOperatorsOnShift(setupStart, setupEnd)) :
        ~ hasOperatorConflict(o, setupStart, setupEnd) }

\* twice the score totalAssignedMinutes + 0.5 * currentShiftMinutes - 50 (afternoon)
\* + 10 * rotationIndex, which keeps it a whole number
doubledScore(operator, referenceTime) ==
    2 * getTotalOperatorSetupMinutes(operator)
    + getOperatorSetupMinutesInShift(operator, referenceTime)
    - (IF operatorShifts[operator].shift = "afternoon" THEN 100 ELSE 0)
    + 20 * (IndexOf(allPersons, operator) - 1)

\* C26: when some operator is on shift for the requested setup interval and free of
\* conflict, selectOptimalPerson returns such an operator, without a delayed start, and
\* none of them has a strictly lower score.
C26_LowestScoreOperator ==
    (operationPending /\ freeOnShift(pendingRequest.setupStart, pendingRequest.setupEnd) # {}) =>
        LET setupStart == pendingRequest.setupStart
            setupEnd == pendingRequest.setupEnd
            selected == selectOptimalPerson(setupStart, setupEnd)
        IN  /\ selected.delayedStart = NoTime
            /\ selected.operator \in freeOnShift(setupStart, setupEnd)
            /\ \A o \in freeOnShift(setupStart, setupEnd) :
                  doubledScore(selected.operator, setupStart) <= doubledScore(o, setupStart)

\* two operators with different scores are free for the request of the pending call,
\* and the one of the lower score is selected although it comes second in the rotation
C26_Witness ==
    /\ operationPending
    /\ \E o1, o2 \in freeOnShift(pendingRequest.setupStart, pendingRequest.setupEnd) :
          /\ IndexOf(allPersons, o1) < IndexOf(allPersons, o2)
          /\ doubledScore(o2, pendingRequest.setupStart)
                 < doubledScore(o1, pendingRequest.setupStart)
          /\ selectOptimalPerson(pendingRequest.setupStart,
                                 pendingRequest.setupEnd).operator = o2

\* the next shift boundary after a time: 14:00 of the day for a time of the morning
\* shift, otherwise the next 06:00
nextShiftBoundary(t) ==
    IF Hours(t) >= 6 /\ Hours(t) < 14 THEN SetHours(t, 14)
    ELSE IF Hours(t) < 6 THEN SetHours(t, 6)
    ELSE SetHours(t + MinutesPerDay, 6)

\* the pending call asks for a setup interval that no operator's shift contains
requestOutsideEveryShift ==
    /\ operationPending
    /\ Len(getOperatorsOnShift(pendingRequest.setupStart, pendingRequest.setupEnd)) = 0

\* C27: when no operator's shift contains the requested setup interval,
\* selectOptimalPerson signals a delayed start at the next shift boundary after the
\* requested start: 14:00 of the same day for a start between 06:00 and 14:00,
\* otherwise the next 06:00.
C27_DelayedToNextShift ==
    requestOutsideEveryShift =>
        selectOptimalPerson(pendingRequest.setupStart, pendingRequest.setupEnd).delayedStart
            = nextShiftBoundary(pendingRequest.setupStart)

\* a setup asked for in the morning shift that ends in the afternoon shift is delayed
C27_Witness ==
    /\ requestOutsideEveryShift
    /\ Hours(pendingRequest.setupStart) < 14
    /\ selectOptimalPerson(pendingRequest.setupStart,
                           pendingRequest.setupEnd).delayedStart # NoTime

\* the end of the shift of the operator selected for the pending call, on the day the
\* setup starts
pendingShiftEnd ==
    SetHours(pendingSelection.setupStart, operatorShifts[pendingSelection.operator].end)

\* the setup interval chosen for the pending call starts before the end of its
\* operator's shift and ends after it
pendingCrossesShiftEnd ==
    /\ operationPending
    /\ Len(CurrentOrder.operations[opIndex].EligibleMachines) > 0
    /\ pendingSelection.setupStart < pendingShiftEnd
    /\ pendingSelection.setupEnd > pendingShiftEnd

\* C28: when the setup interval chosen for an operation crosses the end of its
\* operator's shift, the operator is reserved for the part before the boundary and an
\* operator of the following shift for the remainder, the two parts lasting the setup
\* duration together.
C28_SetupSplitAtShiftEnd ==
    [][ pendingCrossesShiftEnd =>
            LET setupDuration == CurrentOrder.operations[opIndex].SetupTime_Min
                workDoneInShift == pendingShiftEnd - pendingSelection.setupStart
            IN  /\ holds(operatorSchedule'[pendingSelection.operator],
                         pendingSelection.setupStart, pendingShiftEnd)
                /\ \E next \in SeqToSet(getOperatorsForNextShift(pendingSelection.operator)) :
                      \E k \in 1..Len(operatorSchedule'[next]) :
                          /\ operatorSchedule'[next][k].start >= pendingShiftEnd
                          /\ operatorSchedule'[next][k].end - operatorSchedule'[next][k].start
                                 = setupDuration - workDoneInShift ]_vars

\* a setup of an hour chosen for 13:30 with a morning operator is pending
C28_Witness ==
    /\ pendingCrossesShiftEnd
    /\ pendingSelection.setupStart = HM(0, 13, 30)
    /\ pendingSelection.setupEnd = HM(0, 14, 30)
    /\ pendingSelection.operator = "A"
    /\ pendingSpillover.operator = "C"
    /\ pendingSpillover.actualSetupStart = HM(0, 14, 0)

\* the machines in breakdown for an order: its own breakdown machine and the machines
\* of the global breakdown list
machinesInBreakdown(order) ==
    (IF order.breakdownMachine # "" THEN { order.breakdownMachine } ELSE {})
    \cup SeqToSet(globalBreakdown)

\* the operation of a logged scheduleOperation call
operationOfEntry(entry) == ordersData[entry.order].operations[entry.op]

\* C29: the machine chosen for an operation is one of the operation's eligible machines,
\* and it is a breakdown machine (of the order or of the global list) only when every
\* eligible machine is in breakdown, and then it is the first eligible machine.
C29_MachineEligibleNotBroken ==
    \A e \in 1..Len(reservationLog) :
        LET entry == reservationLog[e]
            eligibleMachines == operationOfEntry(entry).EligibleMachines
            broken == machinesInBreakdown(ordersData[entry.order])
        IN  /\ Includes(eligibleMachines, entry.row.Machine)
            /\ entry.row.Machine \in broken =>
                  /\ SeqToSet(eligibleMachines) \subseteq broken
                  /\ entry.row.Machine = eligibleMachines[1]

\* an operation of an order with a breakdown machine of its own was scheduled on a
\* machine of the global breakdown list while another eligible machine was in order
C29_Witness ==
    \E e \in 1..Len(reservationLog) :
        LET entry == reservationLog[e]
        IN  /\ ordersData[entry.order].breakdownMachine # ""
            /\ Includes(globalBreakdown, entry.row.Machine)
            /\ \E m \in SeqToSet(operationOfEntry(entry).EligibleMachines) :
                  m \notin machinesInBreakdown(ordersData[entry.order])


\* the eligible machines of the pending operation that are in no breakdown list
pendingAvailableMachines ==
    SeqToSet(CurrentOrder.operations[opIndex].EligibleMachines)
    \ machinesInBreakdown(CurrentOrder)

\* the pending scheduleOperation call returns a row
pendingCallReturns ==
    operationPending /\ Len(reservationLog') = Len(reservationLog) + 1

\* C30: when some available machine (eligible, in no breakdown list) of the operation
\* holds no reservation at the call, the machine selected for the operation holds none
\* either, whether or not the due date can be met; a machine that already holds
\* reservations is selected only when every available machine holds some.
C30_UnusedMachineFirst ==
    [][ pendingCallReturns =>
          LET selected == reservationLog'[Len(reservationLog')].row.Machine
          IN  /\ (\E m \in pendingAvailableMachines : Len(machineSchedule[m]) = 0)
                    => Len(machineSchedule[selected]) = 0
              /\ Len(machineSchedule[selected]) > 0
                    => \A m \in pendingAvailableMachines : Len(machineSchedule[m]) > 0
      ]_vars

\* the last scheduled operation went to a machine that held no reservation before
\* (it holds the one of this call), another available machine of the operation holds
\* reservations, and the operation ends after the due date of its order
C30_Witness ==
    /\ Len(reservationLog) > 0
    /\ LET entry == reservationLog[Len(reservationLog)]
           order == ordersData[entry.order]
       IN  /\ Len(machineSchedule[entry.row.Machine]) = 1
           /\ \E m \in SeqToSet(operationOfEntry(entry).EligibleMachines)
                        \ machinesInBreakdown(order) :
                 m # entry.row.Machine /\ Len(machineSchedule[m]) > 0
           /\ entry.row.RunEnd > order.dueDate


\* the closing boundary of the settings' production window on the day of t, and the
\* next opening after it
windowClose(t) == setHours(t, settingsWindow.end)
windowOpen(t) == setHours(windowClose(t) + MinutesPerDay, settingsWindow.start)

\* the end of the run as calculateOperationTiming computed it, before any pause
unpausedRunEnd(row) == row.pieceCompletionTimes[Len(row.pieceCompletionTimes)]

\* C31: in a run whose settings give a bounded production window, the run of an
\* operation ends at or before the closing boundary of the day it starts, or it is
\* paused there: its run end is the next window opening plus the work that was left at
\* the boundary.
C31_RunInsideProductionWindow ==
    settingsWindow.type # "24x7" =>
        \A e \in 1..Len(reservationLog) :
            LET row == reservationLog[e].row
            IN  \/ unpausedRunEnd(row) <= windowClose(row.RunStart)
                \/ row.RunEnd = windowOpen(row.RunStart)
                                + (unpausedRunEnd(row) - windowClose(row.RunStart))

\* a run under a bounded production window whose work crosses the closing boundary
C31_Witness ==
    /\ settingsWindow.type # "24x7"
    /\ \E e \in 1..Len(reservationLog) :
          LET row == reservationLog[e].row
          IN  /\ row.RunStart < windowClose(row.RunStart)
              /\ unpausedRunEnd(row) > windowClose(row.RunStart)


\* C32: after runScheduling has returned, the array of orders is what the caller passed
\* in: every order record and every operation record, and the order of each operations
\* array.
C32_InputUnchanged ==
    pc = "done" => ordersData = inputOrders

\* runScheduling has returned after scheduleOrder was called for an order whose
\* operations the caller passed in an order other than by OperationSeq
C32_Witness ==
    /\ pc = "done"
    /\ result.returned
    /\ \E o \in 1..Len(inputOrders) :
          LET operations == inputOrders[o].operations
          IN  \E i \in 1..Len(operations), j \in 1..Len(operations) :
                 i < j /\ operations[i].OperationSeq > operations[j].OperationSeq


\* the step of runScheduling in which the piece-flow validation runs
pieceFlowValidationRuns == pc = "orders" /\ pc' = "done" /\ ~ ledgerValidationThrows

\* the fields the auto-fix writes
timingFields == {"SetupStart", "SetupEnd", "RunStart", "RunEnd", "Timing"}

\* row i of an order, before and after the validation, was rewritten by the auto-fix to
\* start its setup at the time required
rewrittenFor(before, after, required) ==
    /\ DOMAIN after = DOMAIN before
    /\ newDate(after.SetupStart) = required
    /\ newDate(after.SetupEnd) = required + before.SetupTime_Min
    /\ newDate(after.RunStart) = newDate(after.SetupEnd)
    /\ newDate(after.RunEnd) = newDate(after.RunStart)
                               + before.CycleTime_Min * before.Batch_Qty
    /\ after.Timing = formatDurationBreakdown(required, newDate(after.RunEnd))
    /\ \A fld \in (DOMAIN before) \ timingFields : after[fld] = before[fld]

\* C33: the auto-fix of the piece-flow validation rewrites, for an operation whose setup
\* starts before the first-piece-done of the operation before it, only that operation's
\* SetupStart (that first-piece-done), SetupEnd (SetupStart + setup duration), RunStart
\* (SetupEnd), RunEnd (RunStart + cycle * batch quantity) and Timing; every other
\* operation and every machine and operator ledger interval stays as it was.
C33_AutoFixRewritesTimingOnly ==
    [][ pieceFlowValidationRuns =>
          /\ machineSchedule' = machineSchedule
          /\ operatorSchedule' = operatorSchedule
          /\ allResults' = allResults
          /\ Len(originalOrderResults') = Len(originalOrderResults)
          /\ \A k \in 1..Len(originalOrderResults) :
                LET before == originalOrderResults[k].results
                    after == originalOrderResults'[k].results
                IN  /\ Len(after) = Len(before)
                    /\ \A i \in 1..Len(before) :
                          IF /\ i > 1
                             /\ newDate(before[i].SetupStart)
                                   < calculateFirstPieceDone(after[i - 1])
                          THEN rewrittenFor(before[i], after[i],
                                            calculateFirstPieceDone(after[i - 1]))
                          ELSE after[i] = before[i]
      ]_vars

\* a run has returned in which the auto-fix has rewritten one operation of an order and
\* left another operation of the same order as it was
C33_Witness ==
    /\ pc = "done"
    /\ result.returned
    /\ \E k \in 1..Len(originalOrderResults) :
          LET rows == originalOrderResults[k].results
          IN  \E i \in 1..Len(rows), j \in 1..Len(rows) :
                 /\ "iso" \in DOMAIN rows[i].SetupStart
                 /\ "date" \in DOMAIN rows[j].SetupStart
                 /\ j = i - 1


\* the machines whose list of intervals the step changes
machinesReservedByStep == { m \in MachineIds : machineSchedule'[m] # machineSchedule[m] }

\* C34: every machine reservation of scheduleOperation appends one interval that starts
\* at or after the latest end of the intervals the machine already holds, the list stays
\* free of overlap, and so no step of a run leaves a machine list that makes
\* validateMachineSchedule throw.
C34_MachineReservedAfterLatestEnd ==
    [][ /\ \A m \in machinesReservedByStep :
              /\ operationPending
              /\ Len(machineSchedule'[m]) = Len(machineSchedule[m]) + 1
              /\ SubSeq(machineSchedule'[m], 1, Len(machineSchedule[m])) = machineSchedule[m]
              /\ machineSchedule'[m][Len(machineSchedule'[m])].start
                    >= LatestEnd(machineSchedule[m])
        /\ \A m \in MachineIds : ~ machineScheduleViolated(machineSchedule'[m])
      ]_vars

\* a machine holds two reservations, the later one starting when the earlier one ends
C34_Witness ==
    \E m \in MachineIds :
        /\ Len(machineSchedule[m]) >= 2
        /\ machineSchedule[m][2].start = machineSchedule[m][1].end


(***************************************************************************)
(* reserveOperator called on its own, on the ledgers its own calls build   *)
(***************************************************************************)
MaxReservations == 3
MaxReserveCalls == 8

\* setup starts around the change of shift at 14:00, setup durations
ReserveStarts == { HM(0, 13, 20), HM(0, 13, 30), HM(0, 13, 45), HM(0, 14, 0) }
ReserveDurations == { 15, 40 }

\* the number of reserveOperator calls, the first included, until one of them finds no
\* overlap; calls beyond MaxReserveCalls are not followed
RECURSIVE reserveOperatorCalls(_, _, _, _)
reserveOperatorCalls(operator, setupStart, setupEnd, made) ==
    IF made > MaxReserveCalls THEN made
    ELSE IF \E k \in 1..Len(operatorSchedule[operator]) :
               Overlaps(setupStart, setupEnd, operatorSchedule[operator][k].start,
                        operatorSchedule[operator][k].end)
    THEN LET alternativeOperator == findAlternativeOperator(setupStart, setupEnd)
         IN  IF alternativeOperator # NoOperator /\ alternativeOperator # operator
             THEN reserveOperatorCalls(alternativeOperator, setupStart, setupEnd, made + 1)
             ELSE reserveOperatorCalls(operator, setupStart + 15, setupEnd + 15, made + 1)
    ELSE made

reserveUnchanged ==
    UNCHANGED << ordersData, inputOrders, settingsNull, globalStart, globalBreakdown,
                 settingsWindow, originalOrderResults, sortedOrders, pc, orderIndex,
                 batches, batchIndex, opIndex, orderResults, batchPrevFPD,
                 batchPrevRunEnd, machineSchedule, allResults, alerts, completedOrders,
                 reservationLog, result >>

\* one call reserveOperator(operator, setupStart, setupEnd) that returns
ReserveOperatorCall ==
    /\ pc = "reserve"
    /\ SumSeq([ i \in 1..Len(allPersons) |-> Len(operatorSchedule[allPersons[i]]) ])
          < MaxReservations
    /\ \E operator \in PersonIds, setupStart \in ReserveStarts, d \in ReserveDurations :
          LET calls == reserveOperatorCalls(operator, setupStart, setupStart + d, 1)
          IN  /\ calls <= MaxReserveCalls
              /\ operatorSchedule' = reserveOperator(operatorSchedule, operator,
                                                     setupStart, setupStart + d)
              /\ bq' = [phase |-> "reserved", operator |-> operator,
                        setupStart |-> setupStart, setupEnd |-> setupStart + d,
                        calls |-> calls, before |-> operatorSchedule]
    /\ reserveUnchanged

InitReserve ==
    /\ bq = [phase |-> "reserve"]
    /\ ordersData = << >>
    /\ inputOrders = << >>
    /\ settingsNull = FALSE
    /\ globalStart = HM(0, 6, 0)
    /\ globalBreakdown = << >>
    /\ settingsWindow = AroundTheClock
    /\ originalOrderResults = << >>
    /\ sortedOrders = << >>
    /\ pc = "reserve"
    /\ orderIndex = 1
    /\ batches = << >>
    /\ batchIndex = 1
    /\ opIndex = 1
    /\ orderResults = << >>
    /\ batchPrevFPD = NoTime
    /\ batchPrevRunEnd = NoTime
    /\ machineSchedule = [ m \in MachineIds |-> << >> ]
    /\ operatorSchedule = [ o \in PersonIds |-> << >> ]
    /\ allResults = << >>
    /\ alerts = << >>
    /\ completedOrders = << >>
    /\ reservationLog = << >>
    /\ result = NoResult

NextReserve == ReserveOperatorCall

SpecReserve == InitReserve /\ [][NextReserve]_vars

\* the list with its k-th element taken out
without(intervals, k) == SubSeq(intervals, 1, k - 1) \o SubSeq(intervals, k + 1, Len(intervals))

\* C35: on every ledger and for every candidate operator and interval the recursion of
\* reserveOperator ends, and when the call has returned, exactly one operator's list
\* has changed: it holds one interval more, as long as the candidate, and its other
\* intervals, like every other operator's, are the ones stored before.
C35_ReserveOperatorAddsOneInterval ==
    pc = "reserve" =>
        /\ \A operator \in PersonIds, setupStart \in ReserveStarts, d \in ReserveDurations :
               reserveOperatorCalls(operator, setupStart, setupStart + d, 1) <= MaxReserveCalls
        /\ bq.phase = "reserved" =>
               \E o \in PersonIds :
                  /\ \A other \in PersonIds \ {o} :
                         operatorSchedule[other] = bq.before[other]
                  /\ \E k \in 1..Len(operatorSchedule[o]) :
                         /\ without(operatorSchedule[o], k) = bq.before[o]
                         /\ operatorSchedule[o][k].end - operatorSchedule[o][k].start
                               = bq.setupEnd - bq.setupStart

\* a call has returned that met an overlap, went on to another operator and to a later
\* interval, and stored the interval there
C35_Witness ==
    /\ bq.phase = "reserved"
    /\ bq.calls >= 3
    /\ Len(operatorSchedule[bq.operator]) = Len(bq.before[bq.operator])
    /\ \E o \in PersonIds \ {bq.operator} :
          \E k \in 1..Len(operatorSchedule[o]) :
             /\ without(operatorSchedule[o], k) = bq.before[o]
             /\ operatorSchedule[o][k].start > bq.setupStart


\* the orders whose scheduleOrder call has thrown
ordersThatThrew ==
    { sortedOrders[i] : i \in 1..(orderIndex - 1) } \ SeqToSet(completedOrders)

\* C36: the reservations made for an order before its scheduling failed are not rolled
\* back: from the failure to the end of the run the machine ledger holds the interval of
\* each of its scheduled operations and the operator ledger holds the setup interval
\* stored for it, and no row of the order is among the collected or returned rows.
C36_FailedOrderKeepsReservations ==
    pc \in {"orders", "order", "done"} =>
        \A e \in 1..Len(reservationLog) :
            LET entry == reservationLog[e]
            IN  entry.order \in ordersThatThrew =>
                  /\ \E k \in 1..Len(machineSchedule[entry.row.Machine]) :
                        machineSchedule[entry.row.Machine][k]
                           = [start |-> entry.row.SetupStart, end |-> entry.row.RunEnd]
                  /\ \E k \in 1..Len(operatorSchedule[entry.reserved.operator]) :
                        operatorSchedule[entry.reserved.operator][k]
                           = [start |-> entry.reserved.start, end |-> entry.reserved.end]
                  /\ \A i \in 1..Len(allResults) :
                        allResults[i].PartNumber # ordersData[entry.order].partNumber
                  /\ (pc = "done" /\ result.returned) =>
                        rowsOf(ordersData[entry.order].partNumber) = << >>

\* the run has returned; an order failed after one of its operations was reserved, and
\* an operation of an order scheduled after it was put on the same machine behind that
\* reservation
C36_Witness ==
    /\ pc = "done"
    /\ result.returned
    /\ \E e1 \in 1..Len(reservationLog), e2 \in 1..Len(reservationLog) :
          /\ e1 < e2
          /\ reservationLog[e1].order \in ordersThatThrew
          /\ reservationLog[e2].order \in SeqToSet(completedOrders)
          /\ reservationLog[e2].row.Machine = reservationLog[e1].row.Machine
          /\ reservationLog[e2].row.SetupStart = reservationLog[e1].row.RunEnd
          /\ Len(rowsOf(ordersData[reservationLog[e2].order].partNumber)) > 0


\* runScheduling has returned from its try block, not from the outer catch
returnedNormally == pc = "done" /\ result.returned /\ result # fatalResult

\* C37: in a result returned without reaching the outer catch, summary.totalOrders is
\* the number of input orders, summary.totalOperations is the number of rows, and
\* summary.completedSuccessfully is the number of orders whose scheduleOrder call
\* returned, a number between 0 and totalOrders.
C37_SummaryCounts ==
    returnedNormally =>
        /\ result.summary.totalOrders = Len(inputOrders)
        /\ result.summary.totalOperations = Len(result.rows)
        /\ result.summary.completedSuccessfully = Len(completedOrders)
        /\ 0 <= result.summary.completedSuccessfully
        /\ result.summary.completedSuccessfully <= result.summary.totalOrders

\* a result returned from the try block whose alerts hold the alert of a failed
\* validation of the rows
C37_Witness ==
    /\ returnedNormally
    /\ Len(completedOrders) > 0
    /\ \E k \in 1..Len(result.alerts) : result.alerts[k].kind = "validation"


\* row i of the rows of an order is the first operation of a batch after the first
firstOfLaterBatch(rows, i) == i > 1 /\ rows[i].Batch_Index # rows[i - 1].Batch_Index

\* C38: the piece-flow validation sets an operation against the operation before it in
\* the same batch only: after the validation the first operation of every batch is as
\* scheduleOrder returned it, not adjusted to the last operation of the batch before.
C38_FirstOfBatchNotAdjusted ==
    returnedNormally =>
        \A k \in 1..Len(originalOrderResults) :
            LET rows == originalOrderResults[k].results
            IN  \A i \in 1..Len(rows) :
                   firstOfLaterBatch(rows, i) => "date" \in DOMAIN rows[i].SetupStart

\* the validation has run over the rows of an order that was split into batches
C38_Witness ==
    /\ returnedNormally
    /\ \E k \in 1..Len(originalOrderResults) :
          LET rows == originalOrderResults[k].results
          IN  \E i \in 1..Len(rows) :
                 /\ firstOfLaterBatch(rows, i)
                 /\ rows[i].Batch_Qty > 0


(***************************************************************************)
(* The engine of src/x10-browser.js (its own class                         *)
(* FixedUnifiedSchedulingEngine and function runScheduling). The methods   *)
(* whose text is the same in both files (hasOperatorConflict,              *)
(* getEarliestOperatorFreeTime, getOperatorSetupMinutesInShift,            *)
(* getEarliestFreeTime, getOperatorsForNextShift, getNextValidShiftStart,  *)
(* validateSetupWithinWindow, applyProductionWindowConstraints,            *)
(* reserveMachine, validateMachineSchedule, validateOperatorSchedule,      *)
(* calculateFirstPieceDone, the order sort and the row of runScheduling)   *)
(* are the operators defined above; the others are defined here.           *)
(***************************************************************************)
\* the index of the first least element: reduce((best, current) =>
\* current < best ? current : best) over a list that is not empty
FirstLeast(keys) ==
    CHOOSE i \in 1..Len(keys) :
        /\ \A j \in 1..(i - 1) : keys[j] > keys[i]
        /\ \A j \in (i + 1)..Len(keys) : keys[j] >= keys[i]

\* orders of the model carry no startDateTime, so deadlineUrgency stays 1.0; the
\* multiplier is counted in tenths: Math.ceil(size * 0.8) = CeilDiv(size * 8, 10)
x10_calculateBatchSplitting(totalQuantity, minBatchSize, priority) ==
    LET MIN_BATCH_SIZE == Max(minBatchSize, 100)
        high == priority \in {"Urgent", "High"}
        maxBatches == IF high
                      THEN (IF totalQuantity <= 500 THEN 4
                            ELSE IF totalQuantity <= 1000 THEN 5 ELSE 6)
                      ELSE (IF totalQuantity <= 500 THEN 3
                            ELSE IF totalQuantity <= 1000 THEN 4 ELSE 5)
        batchSizeMultiplier == IF high THEN 8 ELSE 10
        byQuantity == IF totalQuantity <= 300
                      THEN Max(MIN_BATCH_SIZE, CeilDiv(totalQuantity, 2))
                      ELSE IF totalQuantity <= 600 THEN 250
                      ELSE IF totalQuantity <= 1000
                      THEN Min(300, CeilDiv(totalQuantity, 3))
                      ELSE Min(300, CeilDiv(totalQuantity, 4))
        byPriority == CeilDiv(byQuantity * batchSizeMultiplier, 10)
        limited == CeilDiv(totalQuantity, byPriority) > maxBatches
        optimalBatchSize == IF limited THEN CeilDiv(totalQuantity, maxBatches)
                            ELSE byPriority
        numBatches == IF optimalBatchSize < MIN_BATCH_SIZE
                      THEN CeilDiv(totalQuantity, MIN_BATCH_SIZE)
                      ELSE IF limited THEN maxBatches
                      ELSE CeilDiv(totalQuantity, byPriority)
        batchSize == CeilDiv(totalQuantity, numBatches)
    IN  [ i \in 1..numBatches |->
            [batchIndex |-> i - 1,
             quantity |-> Max(0, Min(batchSize, totalQuantity - (i - 1) * batchSize))] ]

x10_isOperatorOnShift(operator, setupStart, setupEnd) ==
    LET shift == operatorShifts[operator]
    IN  Hours(setupStart) >= shift.start /\ Hours(setupEnd) < shift.end

x10_getOperatorsOnShift(setupStart, setupEnd) ==
    SelectSeq(allPersons, LAMBDA operator : x10_isOperatorOnShift(operator, setupStart, setupEnd))

x10_getNextShiftStart(currentTime) ==
    LET currentHour == Hours(currentTime)
    IN  IF currentHour >= 6 /\ currentHour < 14 THEN SetHours(currentTime, 14)
        ELSE IF currentHour >= 14 /\ currentHour < 22
        THEN SetHours(currentTime + MinutesPerDay, 6)
        ELSE IF currentHour >= 22 THEN SetHours(currentTime + MinutesPerDay, 6)
        ELSE SetHours(currentTime, 6)

\* NoOperator stands for the thrown 'No operators available during setup window'.
\* Lines 904-932: when nobody is on shift for the whole setup, the first operator whose
\* shift holds the start. Lines 934-978: among the operators without conflict (buffer of
\* one minute) the earliest free, then the least loaded. Lines 980-1012: otherwise the
\* operator who is free with the least delay inside the shift, or the first on shift.
x10_selectOptimalPerson(setupStart, setupEnd) ==
    LET operatorsOnShift == x10_getOperatorsOnShift(setupStart, setupEnd)
        operatorsWhoCanStart ==
            SelectSeq(allPersons, LAMBDA operator :
                /\ setupStart >= SetHours(setupStart, operatorShifts[operator].start)
                /\ setupStart < SetHours(setupStart, operatorShifts[operator].end))
        availableOperators ==
            SelectSeq(operatorsOnShift, LAMBDA operator :
                ~ hasOperatorConflict(operator, setupStart - 1, setupEnd + 1))
        freeTime(operator) == getEarliestOperatorFreeTime(operator, setupStart)
        earliestFreeOperators ==
            SelectSeq(availableOperators, LAMBDA operator :
                \A i \in 1..Len(availableOperators) :
                    freeTime(operator) <= freeTime(availableOperators[i]))
        adjustedSetupStart(operator) == Max(setupStart, freeTime(operator))
        earliestOptions ==
            SelectSeq(operatorsOnShift, LAMBDA operator :
                x10_isOperatorOnShift(operator, adjustedSetupStart(operator),
                    adjustedSetupStart(operator) + (setupEnd - setupStart)))
    IN  IF Len(operatorsOnShift) = 0
        THEN (IF Len(operatorsWhoCanStart) > 0 THEN operatorsWhoCanStart[1]
              ELSE NoOperator)
        ELSE IF Len(availableOperators) > 0
        THEN earliestFreeOperators[FirstLeast([ i \in 1..Len(earliestFreeOperators) |->
                 getOperatorSetupMinutesInShift(earliestFreeOperators[i], setupStart) ])]
        ELSE IF Len(earliestOptions) > 0
        THEN earliestOptions[FirstLeast([ i \in 1..Len(earliestOptions) |->
                 adjustedSetupStart(earliestOptions[i]) - setupStart ])]
        ELSE operatorsOnShift[1]

\* line 771 sets the hour of shiftEnd to shift.end again: nextShiftStart is shiftEnd
x10_handleSetupSpillover(operator, setupStart, setupEnd, setupDuration) ==
    LET shift == operatorShifts[operator]
        shiftEnd == SetHours(setupStart, shift.end)
        workDoneInShift == shiftEnd - setupStart
        remainingWork == setupDuration - workDoneInShift
        nextShiftStart == SetHours(shiftEnd, shift.end)
        nextShiftOperators == getOperatorsForNextShift(operator)
        nextValidShiftStart == getNextValidShiftStart(setupStart)
    IN  IF setupEnd > shiftEnd
        THEN IF Len(nextShiftOperators) > 0
             THEN [operator |-> nextShiftOperators[1], actualSetupStart |-> nextShiftStart,
                   actualSetupEnd |-> nextShiftStart + remainingWork, spillover |-> TRUE]
             ELSE [operator |-> operator, actualSetupStart |-> nextValidShiftStart,
                   actualSetupEnd |-> nextValidShiftStart + setupDuration,
                   spillover |-> TRUE]
        ELSE [operator |-> operator, actualSetupStart |-> setupStart,
              actualSetupEnd |-> setupEnd, spillover |-> FALSE]

\* lines 492-543: the loop of at most 15 attempts, entered at the given attempt;
\* threw stands for the error selectOptimalPerson throws inside the loop, found is
\* FALSE when the attempts are used up
RECURSIVE x10_selectOperatorLoop(_, _, _, _, _)
x10_selectOperatorLoop(operation, attempt, actualOperator, actualSetupStart, actualSetupEnd) ==
    IF attempt > 15
    THEN [found |-> FALSE, threw |-> FALSE, operator |-> actualOperator,
          setupStart |-> actualSetupStart, setupEnd |-> actualSetupEnd]
    ELSE IF ~ hasOperatorConflict(actualOperator, actualSetupStart, actualSetupEnd)
    THEN [found |-> TRUE, threw |-> FALSE, operator |-> actualOperator,
          setupStart |-> actualSetupStart, setupEnd |-> actualSetupEnd]
    ELSE LET alternatives ==
                 SelectSeq(x10_getOperatorsOnShift(actualSetupStart, actualSetupEnd),
                     LAMBDA altOperator :
                         /\ altOperator # actualOperator
                         /\ ~ hasOperatorConflict(altOperator, actualSetupStart,
                                                  actualSetupEnd))
             delayMinutes == IF attempt <= 5 THEN attempt * 30
                             ELSE IF attempt <= 10 THEN 150 + (attempt - 5) * 60
                             ELSE 450 + (attempt - 10) * 120
             delayedStart == actualSetupStart + delayMinutes
             delayedEnd == actualSetupEnd + delayMinutes
             delayedOperator == x10_selectOptimalPerson(delayedStart, delayedEnd)
             nextShiftStart == x10_getNextShiftStart(delayedStart)
             nextShiftEnd == nextShiftStart + operation.SetupTime_Min
             nextShiftOperator == x10_selectOptimalPerson(nextShiftStart, nextShiftEnd)
             thrown == [found |-> FALSE, threw |-> TRUE, operator |-> NoOperator,
                        setupStart |-> delayedStart, setupEnd |-> delayedEnd]
         IN  IF Len(alternatives) > 0
             THEN x10_selectOperatorLoop(operation, attempt + 1, alternatives[1],
                                         actualSetupStart, actualSetupEnd)
             ELSE IF delayedOperator = NoOperator THEN thrown
             ELSE IF attempt <= 10
             THEN x10_selectOperatorLoop(operation, attempt + 1, delayedOperator,
                                         delayedStart, delayedEnd)
             ELSE IF nextShiftOperator = NoOperator THEN thrown
             ELSE x10_selectOperatorLoop(operation, attempt + 1, nextShiftOperator,
                                         nextShiftStart, nextShiftEnd)

\* this.machineSchedule[machine] || []
x10_hasConflict(schedule, machine, candidateStart, candidateEnd) ==
    LET existingIntervals == IF machine \in DOMAIN schedule THEN schedule[machine]
                             ELSE << >>
    IN  \E k \in 1..Len(existingIntervals) :
            /\ candidateStart < existingIntervals[k].end
            /\ existingIntervals[k].start < candidateEnd

\* NoMachine stands for eligibleMachines[0] of an empty list. Lines 656-692: the
\* candidate of one machine; offered is FALSE for a machine that is pushed to no list.
x10_selectOptimalMachine(operation, orderData, setupStart, runEnd) ==
    LET eligibleMachines == operation.EligibleMachines
        breakdownMachines == IF orderData.breakdownMachine # ""
                             THEN << orderData.breakdownMachine >>
                             ELSE globalBreakdown
        availableMachines == SelectSeq(eligibleMachines,
                                 LAMBDA machine : ~ Includes(breakdownMachines, machine))
        adjustedRunEnd(machine) ==
            Max(setupStart, getEarliestFreeTime(machine)) + (runEnd - setupStart)
        candidate(machine) ==
            IF ~ x10_hasConflict(machineSchedule, machine, setupStart, runEnd)
            THEN [machine |-> machine, runEnd |-> runEnd, offered |-> TRUE,
                  meetsDueDate |-> runEnd <= orderData.dueDate]
            ELSE [machine |-> machine, runEnd |-> adjustedRunEnd(machine),
                  offered |-> adjustedRunEnd(machine) <= orderData.dueDate,
                  meetsDueDate |-> TRUE]
        candidates ==
            SelectSeq([ i \in 1..Len(availableMachines) |->
                          candidate(availableMachines[i]) ],
                      LAMBDA c : c.offered)
        onTimeCandidates == SelectSeq(candidates, LAMBDA c : c.meetsDueDate)
    IN  IF Len(availableMachines) = 0
        THEN (IF Len(eligibleMachines) > 0 THEN eligibleMachines[1] ELSE NoMachine)
        ELSE IF Len(onTimeCandidates) > 0
        THEN onTimeCandidates[FirstLeast([ i \in 1..Len(onTimeCandidates) |->
                 onTimeCandidates[i].runEnd ])].machine
        ELSE IF Len(candidates) > 0
        THEN candidates[FirstLeast([ i \in 1..Len(candidates) |->
                 candidates[i].runEnd ])].machine
        ELSE availableMachines[FirstLeast([ i \in 1..Len(availableMachines) |->
                 getEarliestFreeTime(availableMachines[i]) ])]

\* lines 1273-1290: hour + Math.ceil(60 / 60) <= 24 holds for every hour of the day
x10_enforceSetupWindow(time) ==
    LET hour == Hours(time)
    IN  IF hour < setupWindow.start THEN SetHours(time, setupWindow.start)
        ELSE IF hour >= setupWindow.end
        THEN (IF hour + 1 <= 24 THEN time
              ELSE SetHours(time + MinutesPerDay, setupWindow.start))
        ELSE time

x10_calculatePreliminaryTiming(operation, batchQty, earliestStartTime) ==
    LET setupStartTime == x10_enforceSetupWindow(earliestStartTime)
        setupEndTime == validateSetupWithinWindow(setupStartTime,
                            setupStartTime + operation.SetupTime_Min)
    IN  [setupStart |-> setupStartTime, setupEnd |-> setupEndTime,
         runStart |-> setupEndTime,
         runEnd |-> setupEndTime + operation.CycleTime_Min * batchQty]

\* previousFirstPiece is previousOpPieceCompletionTimes[0], NoTime for null
x10_calculateOperationTiming(operation, batchQty, machine, earliestStartTime, previousFirstPiece, previousOpRunEnd) ==
    LET triggered == IF previousFirstPiece # NoTime
                     THEN Max(earliestStartTime, previousFirstPiece)
                     ELSE earliestStartTime
        setupStartTime == x10_enforceSetupWindow(Max(triggered, getEarliestFreeTime(machine)))
        setupEndTime == validateSetupWithinWindow(setupStartTime,
                            setupStartTime + operation.SetupTime_Min)
        cycleTime == operation.CycleTime_Min
        runStartTime == setupEndTime
    IN  [setupStartTime |-> setupStartTime,
         setupEndTime |-> setupEndTime,
         runStartTime |-> runStartTime,
         runEndTime |-> runStartTime + batchQty * cycleTime,
         pieceCompletionTimes |-> [ piece \in 1..batchQty |-> runStartTime + piece * cycleTime ],
         firstPieceDone |-> runStartTime + cycleTime,
         totalWorkTime |-> batchQty * cycleTime,
         totalPausedTime |-> 0]

\* lines 1861-1899; NoOperator stands for null
x10_resolveOperatorConflict(operator, setupStart, setupEnd) ==
    LET alternatives ==
            SelectSeq(x10_getOperatorsOnShift(setupStart, setupEnd),
                LAMBDA altOperator :
                    /\ altOperator # operator
                    /\ ~ hasOperatorConflict(altOperator, setupStart, setupEnd))
        retries == { retry \in 0..2 :
                       ~ hasOperatorConflict(operator, setupStart + (retry + 1) * 10,
                                             setupEnd + (retry + 1) * 10) }
        delayMinutes == ((CHOOSE retry \in retries : \A other \in retries : retry <= other)
                         + 1) * 10
    IN  IF Len(alternatives) > 0
        THEN [operator |-> alternatives[1], setupStart |-> setupStart,
              setupEnd |-> setupEnd]
        ELSE IF retries # {}
        THEN [operator |-> operator, setupStart |-> setupStart + delayMinutes,
              setupEnd |-> setupEnd + delayMinutes]
        ELSE [operator |-> NoOperator, setupStart |-> setupStart, setupEnd |-> setupEnd]

\* lines 1559-1591: the conflict test of line 1567 asks hasConflict, which reads the
\* machine ledger under the operator's name; machines is the machine ledger at the
\* time of the call, the operator ledger is the one of the state
RECURSIVE x10_reserveOperator(_, _, _, _)
x10_reserveOperator(machines, operator, setupStart, setupEnd) ==
    IF /\ Len(operatorSchedule[operator]) > 0
       /\ x10_hasConflict(machines, operator, setupStart, setupEnd)
    THEN LET resolution == x10_resolveOperatorConflict(operator, setupStart, setupEnd)
         IN  IF resolution.operator # NoOperator
             THEN x10_reserveOperator(machines, resolution.operator,
                                      resolution.setupStart, resolution.setupEnd)
             ELSE [threw |-> TRUE, operatorSchedule |-> operatorSchedule,
                   operator |-> operator, start |-> setupStart, end |-> setupEnd]
    ELSE [threw |-> FALSE,
          operatorSchedule |-> [operatorSchedule EXCEPT ![operator] =
              insertByStart(@, [start |-> setupStart, end |-> setupEnd])],
          operator |-> operator, start |-> setupStart, end |-> setupEnd]

\* the total, followed in brackets by the work and holiday texts that are not empty;
\* a text is "xD yH zM" of the components that are not zero, empty when all are zero
x10_formatDurationBreakdown(setupStart, runEnd, workMinutes, holidayMinutes) ==
    LET durationText(minutes) ==
            (IF minutes \div 1440 > 0 THEN << << minutes \div 1440, "D" >> >> ELSE << >>)
            \o (IF (minutes % 1440) \div 60 > 0
                THEN << << (minutes % 1440) \div 60, "H" >> >> ELSE << >>)
            \o (IF minutes % 60 > 0 THEN << << minutes % 60, "M" >> >> ELSE << >>)
    IN  [total |-> durationText(runEnd - setupStart),
         work |-> durationText(workMinutes),
         holiday |-> durationText(holidayMinutes)]

\* lines 583-630: production window, both reservations and the returned row; checked
\* is the interval the operator loop found free, reserved the one handed to
\* reserveOperator
x10_scheduleOperationReserve(operation, batchQty, chosen, selectedMachine, finalTiming) ==
    LET productionConstraints ==
            applyProductionWindowConstraints(finalTiming.runStartTime,
                finalTiming.runEndTime, operation.CycleTime_Min * batchQty)
        machineAfter ==
            reserveMachine(machineSchedule, selectedMachine, finalTiming.setupStartTime,
                           productionConstraints.actualRunEnd)
        reserved == x10_reserveOperator(machineAfter, chosen.operator,
                        finalTiming.setupStartTime, finalTiming.setupEndTime)
    IN  IF machineScheduleViolated(machineAfter[selectedMachine]) \/ reserved.threw
        THEN [threw |-> TRUE, machineSchedule |-> machineAfter]
        ELSE [threw |-> FALSE,
              machineSchedule |-> machineAfter,
              operatorSchedule |-> reserved.operatorSchedule,
              checked |-> [operator |-> chosen.operator, start |-> chosen.setupStart,
                           end |-> chosen.setupEnd],
              reserved |-> [operator |-> reserved.operator, start |-> reserved.start,
                            end |-> reserved.end],
              row |-> [OperationSeq |-> operation.OperationSeq,
                       Machine |-> selectedMachine,
                       Person |-> chosen.operator,
                       SetupStart |-> finalTiming.setupStartTime,
                       SetupEnd |-> finalTiming.setupEndTime,
                       RunStart |-> productionConstraints.actualRunStart,
                       RunEnd |-> productionConstraints.actualRunEnd,
                       pieceCompletionTimes |-> finalTiming.pieceCompletionTimes,
                       firstPieceDone |-> finalTiming.firstPieceDone,
                       SetupTime_Min |-> operation.SetupTime_Min,
                       CycleTime_Min |-> operation.CycleTime_Min,
                       Batch_Qty |-> batchQty,
                       Timing |-> x10_formatDurationBreakdown(
                                      finalTiming.setupStartTime,
                                      productionConstraints.actualRunEnd,
                                      finalTiming.totalWorkTime,
                                      finalTiming.totalPausedTime)]]

\* lines 545-581: [OPERATOR-CONFLICT] when the loop found nobody, machine selection,
\* eligibility check of the selected machine, final timing; chosen is what the
\* operator loop returned, runEnd the end of the preliminary run
x10_scheduleOperationMachine(operation, orderData, batchQty, previousSequenceFirstPieceDone, previousOpRunEnd, runEnd, chosen) ==
    IF chosen.threw \/ ~ chosen.found
    THEN [threw |-> TRUE]
    ELSE LET selectedMachine == x10_selectOptimalMachine(operation, orderData,
                                    chosen.setupStart, runEnd)
         IN  IF ~ Includes(operation.EligibleMachines, selectedMachine)
             THEN [threw |-> TRUE]
             ELSE x10_scheduleOperationReserve(operation, batchQty, chosen,
                      selectedMachine,
                      x10_calculateOperationTiming(operation, batchQty, selectedMachine,
                          chosen.setupStart, previousSequenceFirstPieceDone,
                          previousOpRunEnd))

\* lines 446-543: earliest start of the operation, preliminary timing, operator
\* selection (which may throw), spillover handling, then the operator loop
x10_scheduleOperation(operation, orderData, batchQty, previousSequenceFirstPieceDone, previousOpRunEnd) ==
    LET earliestStartTime == IF previousSequenceFirstPieceDone # NoTime
                             THEN Max(globalStart, previousSequenceFirstPieceDone)
                             ELSE globalStart
        preliminaryTiming == x10_calculatePreliminaryTiming(operation, batchQty,
                                                            earliestStartTime)
        selectedPerson == x10_selectOptimalPerson(preliminaryTiming.setupStart,
                                                  preliminaryTiming.setupEnd)
        spilloverResult == x10_handleSetupSpillover(selectedPerson,
                               preliminaryTiming.setupStart, preliminaryTiming.setupEnd,
                               operation.SetupTime_Min)
    IN  IF selectedPerson = NoOperator
        THEN [threw |-> TRUE]
        ELSE x10_scheduleOperationMachine(operation, orderData, batchQty,
                 previousSequenceFirstPieceDone, previousOpRunEnd,
                 preliminaryTiming.runEnd,
                 x10_selectOperatorLoop(operation, 1, spilloverResult.operator,
                     spilloverResult.actualSetupStart, spilloverResult.actualSetupEnd))

\* a row as scheduleOperation returned it and runScheduling kept it for the piece-flow
\* validation
x10_returnedRow(r) ==
    [ fld \in DOMAIN r |->
        IF fld \in {"SetupStart", "SetupEnd", "RunStart", "RunEnd"} THEN dateObject(r[fld])
        ELSE r[fld] ]

\* lines 1659-1696; formatDurationBreakdown is called without work and holiday minutes
x10_adjustOperationForPieceFlowViolation(operation, requiredSetupStart) ==
    LET newSetupEnd == requiredSetupStart + operation.SetupTime_Min
        newRunStart == newSetupEnd
        newRunEnd == newRunStart + operation.CycleTime_Min * operation.Batch_Qty
    IN  [operation EXCEPT !.SetupStart = toISOString(requiredSetupStart),
                          !.SetupEnd = toISOString(newSetupEnd),
                          !.RunStart = toISOString(newRunStart),
                          !.RunEnd = toISOString(newRunEnd),
                          !.Timing = x10_formatDurationBreakdown(requiredSetupStart,
                                                                 newRunEnd, 0, 0)]

x10_validatePieceFlowTriggers(results) ==
    LET pass[i \in 1..Max(1, Len(results))] ==
            IF i = 1 THEN results
            ELSE LET rows == pass[i - 1]
                     prevOpFirstPieceDone == calculateFirstPieceDone(rows[i - 1])
                 IN  IF newDate(rows[i].SetupStart) < prevOpFirstPieceDone
                     THEN [rows EXCEPT ![i] = x10_adjustOperationForPieceFlowViolation(
                                                  rows[i], prevOpFirstPieceDone)]
                     ELSE rows
    IN  pass[Max(1, Len(results))]

\* validateCompleteSchedule with validateOperatorShifts (lines 1738-1752), which asks
\* isOperatorOnShift of this engine for the setup of every row
x10_validateCompleteSchedule(rows) ==
    /\ \A i \in 1..Len(rows) :
           x10_isOperatorOnShift(rows[i].Person, parseFormatted(rows[i].SetupStart),
                                 parseFormatted(rows[i].SetupEnd))
    /\ validateOperatorOverlaps(rows)
    /\ validateMachineExclusivity(rows)
    /\ validateConcurrentSetupCapacity(rows)

\* lines 2074-2099: the breakdown added to every returned row
x10_withDurationBreakdown(row) ==
    LET setupStart == parseFormatted(row.SetupStart)
        runEnd == parseFormatted(row.RunEnd)
        workMinutes == row.SetupTime_Min + row.CycleTime_Min * row.Batch_Qty
        holidayMinutes == Max(0, (runEnd - setupStart) - workMinutes)
    IN  [ fld \in (DOMAIN row) \cup {"DurationBreakdown"} |->
            IF fld = "DurationBreakdown"
            THEN x10_formatDurationBreakdown(setupStart, runEnd, workMinutes,
                                             holidayMinutes)
            ELSE row[fld] ]

\* runScheduling lines 2002-2020
x10_outputRow(order, opResult) ==
    [ fld \in (DOMAIN outputRow(order, opResult)) \cup {"Timing"} |->
        IF fld = "Timing" THEN opResult.Timing ELSE outputRow(order, opResult)[fld] ]

\* runScheduling lines 1947-1987: engine construction, EDD sort, urgent-order alert
X10RunSort ==
    /\ pc = "x10start"
    /\ sortedOrders' = sortOrders(ordersData)
    /\ alerts' = LET urgent == { i \in 1..Len(ordersData) : isUrgentOrder(ordersData[i]) }
                 IN  IF urgent # {}
                     THEN << [kind |-> "urgent", part |-> 0, hours |-> Cardinality(urgent)] >>
                     ELSE << >>
    /\ orderIndex' = 1
    /\ pc' = "x10orders"
    /\ UNCHANGED << ordersData, originalOrderResults, batches, batchIndex, opIndex,
                    orderResults, batchPrevFPD, batchPrevRunEnd, machineSchedule,
                    operatorSchedule, allResults, completedOrders, reservationLog,
                    result >>
    /\ UNCHANGED << inputOrders, settingsNull, globalStart, globalBreakdown,
                    settingsWindow, bq >>

\* scheduleOrder lines 346-349: an order without operations throws; runScheduling
\* lines 2034-2037
X10OrderWithoutOperations ==
    /\ pc = "x10orders"
    /\ orderIndex <= Len(sortedOrders)
    /\ Len(CurrentOrder.operations) = 0
    /\ alerts' = Append(alerts, failedAlert(CurrentOrder))
    /\ orderIndex' = orderIndex + 1
    /\ UNCHANGED << ordersData, originalOrderResults, sortedOrders, pc, batches,
                    batchIndex, opIndex, orderResults, batchPrevFPD, batchPrevRunEnd,
                    machineSchedule, operatorSchedule, allResults, completedOrders,
                    reservationLog, result >>
    /\ UNCHANGED << inputOrders, settingsNull, globalStart, globalBreakdown,
                    settingsWindow, bq >>

\* scheduleOrder lines 351-375: sort the operations in place, plan the batches; the
\* operations of the model carry no Minimum_BatchSize, so minBatchSize is 100
X10BeginOrder ==
    /\ pc = "x10orders"
    /\ orderIndex <= Len(sortedOrders)
    /\ Len(CurrentOrder.operations) > 0
    /\ ordersData' = [ordersData EXCEPT ![sortedOrders[orderIndex]].operations =
                          sortOperations(@)]
    /\ batches' = x10_calculateBatchSplitting(CurrentOrder.quantity, 100,
                                              CurrentOrder.priority)
    /\ batchIndex' = 1
    /\ opIndex' = 1
    /\ orderResults' = << >>
    /\ batchPrevFPD' = NoTime
    /\ batchPrevRunEnd' = NoTime
    /\ pc' = "x10order"
    /\ UNCHANGED << originalOrderResults, sortedOrders, orderIndex, machineSchedule,
                    operatorSchedule, allResults, alerts, completedOrders,
                    reservationLog, result >>
    /\ UNCHANGED << inputOrders, settingsNull, globalStart, globalBreakdown,
                    settingsWindow, bq >>

\* scheduleOrder lines 377-414 around one scheduleOperation call that returns
X10ScheduleOperationStep ==
    /\ pc = "x10order"
    /\ batchIndex <= Len(batches)
    /\ \E r \in { x10_scheduleOperation(CurrentOrder.operations[opIndex], CurrentOrder,
                  batches[batchIndex].quantity, batchPrevFPD, batchPrevRunEnd) } :
       LET lastOp == opIndex = Len(CurrentOrder.operations)
       IN  /\ ~ r.threw
           /\ machineSchedule' = r.machineSchedule
           /\ operatorSchedule' = r.operatorSchedule
           /\ reservationLog' = Append(reservationLog,
                  [order |-> sortedOrders[orderIndex], batch |-> batchIndex,
                   op |-> opIndex, row |-> r.row, reserved |-> r.reserved,
                   checked |-> r.checked])
           /\ orderResults' = Append(orderResults,
                  [ fld \in (DOMAIN r.row) \cup {"Batch_ID", "Batch_Index"} |->
                      CASE fld = "Batch_ID" -> batches[batchIndex].batchIndex + 1
                        [] fld = "Batch_Index" -> batchIndex - 1
                        [] OTHER -> r.row[fld] ])
           /\ batchPrevFPD' = IF lastOp THEN NoTime ELSE r.row.firstPieceDone
           /\ batchPrevRunEnd' = IF lastOp THEN NoTime ELSE r.row.RunEnd
           /\ opIndex' = IF lastOp THEN 1 ELSE opIndex + 1
           /\ batchIndex' = IF lastOp THEN batchIndex + 1 ELSE batchIndex
    /\ UNCHANGED << ordersData, originalOrderResults, sortedOrders, pc, orderIndex,
                    batches, allResults, alerts, completedOrders, result >>
    /\ UNCHANGED << inputOrders, settingsNull, globalStart, globalBreakdown,
                    settingsWindow, bq >>

\* scheduleOperation throws: scheduleOrder rethrows, runScheduling lines 2034-2037
X10ScheduleOperationThrows ==
    /\ pc = "x10order"
    /\ batchIndex <= Len(batches)
    /\ \E r \in { x10_scheduleOperation(CurrentOrder.operations[opIndex], CurrentOrder,
                  batches[batchIndex].quantity, batchPrevFPD, batchPrevRunEnd) } :
        /\ r.threw
        /\ machineSchedule' = IF "machineSchedule" \in DOMAIN r
                              THEN r.machineSchedule ELSE machineSchedule
    /\ alerts' = Append(alerts, failedAlert(CurrentOrder))
    /\ orderIndex' = orderIndex + 1
    /\ pc' = "x10orders"
    /\ batches' = << >>
    /\ orderResults' = << >>
    /\ batchIndex' = 1
    /\ opIndex' = 1
    /\ batchPrevFPD' = NoTime
    /\ batchPrevRunEnd' = NoTime
    /\ UNCHANGED << ordersData, originalOrderResults, sortedOrders, operatorSchedule,
                    allResults, completedOrders, reservationLog, result >>
    /\ UNCHANGED << inputOrders, settingsNull, globalStart, globalBreakdown,
                    settingsWindow, bq >>

\* scheduleOrder lines 419-439 and runScheduling lines 1993-2032
X10FinishOrder ==
    /\ pc = "x10order"
    /\ batchIndex > Len(batches)
    /\ LET order == CurrentOrder
           completion == orderResults[Len(orderResults)].RunEnd
           late == completion > order.dueDate
           hours == lateHours(completion, order.dueDate)
           kept == [ i \in 1..Len(orderResults) |-> x10_returnedRow(orderResults[i]) ]
           warned(row) == [ fld \in (DOMAIN row) \cup {"DueDateWarning"} |->
                              IF fld = "DueDateWarning" THEN hours ELSE row[fld] ]
       IN  /\ alerts' = alerts \o
                  (IF late
                   THEN << [kind |-> "will-be-late", part |-> order.partNumber,
                            hours |-> hours],
                           [kind |-> "may-be-late", part |-> order.partNumber,
                            hours |-> hours] >>
                   ELSE << >>)
           /\ allResults' = allResults \o
                  [ i \in 1..Len(orderResults) |-> x10_outputRow(order, orderResults[i]) ]
           /\ originalOrderResults' = Append(originalOrderResults,
                  [partNumber |-> order.partNumber,
                   results |-> IF late
                               THEN [kept EXCEPT ![Len(kept)] = warned(@)]
                               ELSE kept])
    /\ completedOrders' = Append(completedOrders, sortedOrders[orderIndex])
    /\ orderIndex' = orderIndex + 1
    /\ pc' = "x10orders"
    /\ batches' = << >>
    /\ orderResults' = << >>
    /\ batchIndex' = 1
    /\ opIndex' = 1
    /\ UNCHANGED << ordersData, sortedOrders, batchPrevFPD, batchPrevRunEnd,
                    machineSchedule, operatorSchedule, reservationLog, result >>
    /\ UNCHANGED << inputOrders, settingsNull, globalStart, globalBreakdown,
                    settingsWindow, bq >>

\* runScheduling lines 2040-2118: final validation, breakdown of the rows, summary; a
\* ledger validation that throws is rethrown to the outer catch
X10FinishRun ==
    /\ pc = "x10orders"
    /\ orderIndex > Len(sortedOrders)
    /\ LET finalAlerts ==
               IF ledgerValidationThrows \/ ~ x10_validateCompleteSchedule(allResults)
               THEN Append(alerts, [kind |-> "validation", part |-> 0, hours |-> 0])
               ELSE alerts
           crosses == Len(SelectSeq(finalAlerts, hasCross))
           rows == [ i \in 1..Len(allResults) |-> x10_withDurationBreakdown(allResults[i]) ]
       IN  /\ alerts' = finalAlerts
           /\ allResults' = IF ledgerValidationThrows THEN allResults ELSE rows
           /\ result' = IF ledgerValidationThrows THEN fatalResult
                         ELSE [returned |-> TRUE, threw |-> FALSE, rows |-> rows,
                               alerts |-> finalAlerts,
                               summary |-> [totalOrders |-> Len(ordersData),
                                            totalOperations |-> Len(allResults),
                                            completedSuccessfully |->
                                                Len(sortedOrders) - crosses]]
    /\ originalOrderResults' =
           IF ledgerValidationThrows THEN originalOrderResults
           ELSE [ k \in 1..Len(originalOrderResults) |->
                    [originalOrderResults[k] EXCEPT
                        !.results = x10_validatePieceFlowTriggers(@)] ]
    /\ pc' = "x10done"
    /\ UNCHANGED << ordersData, sortedOrders, orderIndex, batches, batchIndex, opIndex,
                    orderResults, batchPrevFPD, batchPrevRunEnd, machineSchedule,
                    operatorSchedule, completedOrders, reservationLog >>
    /\ UNCHANGED << inputOrders, settingsNull, globalStart, globalBreakdown,
                    settingsWindow, bq >>

\* the orders: quantities of one piece, of several pieces in one batch and of two
\* batches; the operation lists of the first engine and two operations on machines of
\* their own. globalSettings.startDateTime: the start of the morning shift, half an
\* hour before its end, and half past ten at night
InitX10 ==
    /\ \E n \in 1..MaxOrders :
       \E f \in [1..n ->
                 [urgency : Urgencies,
                  batching : [quantity : { 1, MaxQuantity, 100 + MaxQuantity },
                              batchMode : {"auto-split"},
                              customBatchSize : {CustomSize}],
                  operations : OperationLists
                               \cup { << operationOf(1, 30, 20, << "VMC 5" >>),
                                         operationOf(2, 15, 10, << "VMC 6" >>) >> }]] :
            ordersData = [ i \in 1..n |-> orderRecord(i, f[i]) ]
    /\ inputOrders = ordersData
    /\ settingsNull = FALSE
    /\ globalStart \in { HM(0, 6, 0), HM(0, 13, 30), HM(0, 22, 30) }
    /\ globalBreakdown = << >>
    /\ settingsWindow = AroundTheClock
    /\ originalOrderResults = << >>
    /\ sortedOrders = << >>
    /\ pc = "x10start"
    /\ orderIndex = 1
    /\ batches = << >>
    /\ batchIndex = 1
    /\ opIndex = 1
    /\ orderResults = << >>
    /\ batchPrevFPD = NoTime
    /\ batchPrevRunEnd = NoTime
    /\ machineSchedule = [ m \in MachineIds |-> << >> ]
    /\ operatorSchedule = [ o \in PersonIds |-> << >> ]
    /\ allResults = << >>
    /\ alerts = << >>
    /\ completedOrders = << >>
    /\ reservationLog = << >>
    /\ result = NoResult
    /\ bq = Idle

NextX10 ==
    \/ X10RunSort
    \/ X10OrderWithoutOperations
    \/ X10BeginOrder
    \/ X10ScheduleOperationStep
    \/ X10ScheduleOperationThrows
    \/ X10FinishOrder
    \/ X10FinishRun

SpecX10 == InitX10 /\ [][NextX10]_vars

\* C39: when a run of the engine of x10-browser.js has ended, no two intervals stored
\* for one operator overlap, and validateOperatorSchedule throws for no operator.
C39_X10OperatorIntervalsDisjoint ==
    pc = "x10done" =>
        \A operator \in PersonIds :
            /\ pairwiseDisjoint(operatorSchedule[operator])
            /\ ~ operatorScheduleViolated(operatorSchedule[operator])

\* a run has ended in which reserveOperator was handed an interval that overlaps one
\* already stored for the operator
C39_Witness ==
    /\ pc = "x10done"
    /\ \E e \in 1..Len(reservationLog), f \in 1..Len(reservationLog) :
          /\ f < e
          /\ reservationLog[e].reserved.operator = reservationLog[f].reserved.operator
          /\ Overlaps(reservationLog[e].reserved.start, reservationLog[e].reserved.end,
                      reservationLog[f].reserved.start, reservationLog[f].reserved.end)

=============================================================================
